---- MODULE Spec2Model ----
(***************************************************************************)
(* Keyword clustering core of the keyword-research tool                    *)
(* (src/processing/clustering.py): the embedding cache, the similarity     *)
(* matrices, the two clustering passes, pillar selection and the           *)
(* hub-cluster graph.                                                      *)
(*                                                                         *)
(* Conventions.  A keyword is a sequence of one-character strings, so that *)
(* lower() and split() act on it.  Python lists are sequences; an index    *)
(* that the code returns or stores is the 0-based Python index.  A real    *)
(* number in [0,1] (a similarity, a distance, a threshold) is the integer  *)
(* Scale times it; an average of distances is a pair (sum, count) and is   *)
(* compared by cross-multiplication, so no rounding takes place.           *)
(***************************************************************************)
EXTENDS Integers, Sequences, FiniteSets, TLC

VARIABLES
    embed,              \* the sentence-transformer: keyword -> vector (self.model)
    embeddings_cache,   \* self.embeddings_cache
    call,               \* the last completed call: its arguments and its outcome
    threads,            \* the position of each thread inside get_embeddings
    quota_tracker,      \* a QuotaTracker: its limits and its consumed counters
    projects,           \* the rows of the Project table, by project id
    checkpoint_manager, \* a CheckpointManager: its project_id
    pipeline,           \* the position of run_full_pipeline and what it ran
    now,                \* the clock read by time.time() and datetime.utcnow()
    rate_limiter,       \* a RateLimiter: requests_per_minute, tokens, last_update
    acquirers,          \* the position of each thread inside RateLimiter.acquire
    retry               \* the position of BaseProvider.with_retry

\* the clustering state, and the state of the services around it
clusterer == <<embed, embeddings_cache, threads>>
services == <<quota_tracker, projects, checkpoint_manager, pipeline, now, rate_limiter, acquirers, retry>>

vars == <<embed, embeddings_cache, call, threads, services>>

(***************************************************************************)
(* Bounds of the model                                                     *)
(***************************************************************************)
MaxBatch == 3           \* longest keyword list handed to get_embeddings

None == "None"

\* "a", "A b" and "" as strings of characters
KeywordUniverse == { <<"a">>, <<"A", " ", "b">>, <<>> }

KeywordLists(n) == UNION { [1..m -> KeywordUniverse] : m \in 0..n }

\* embedding vectors, all of Euclidean norm 5
Vectors == { <<5, 0>>, <<4, 3>>, <<3, 4>>, <<0, 5>> }

NoCall == [op |-> "none"]
NoThreads == <<>>

\* no QuotaTracker has been constructed
QuotaIdle == quota_tracker = None

\* the Project table is empty and no pipeline is running
StoreIdle ==
    /\ projects = <<>>
    /\ checkpoint_manager = None
    /\ pipeline = None

\* no provider has been constructed: no RateLimiter, no with_retry call
ProviderIdle ==
    /\ rate_limiter = None
    /\ acquirers = <<>>
    /\ retry = None

\* no service object has been constructed and the clock is not read
ServicesIdle ==
    /\ QuotaIdle
    /\ StoreIdle
    /\ ProviderIdle
    /\ now = 0

\* no KeywordClusterer has been constructed
ClustererIdle ==
    /\ embed = <<>>
    /\ embeddings_cache = <<>>
    /\ threads = NoThreads

Range(s) == { s[i] : i \in 1..Len(s) }

(***************************************************************************)
(* get_embeddings                                                          *)
(***************************************************************************)
\* self.model.encode(batch): one vector per string of the batch, in order
encode(batch) == [i \in 1..Len(batch) |-> embed[batch[i]]]

\* a scan that forgets the membership test
RECURSIVE uncached_scan_all(_, _, _)
uncached_scan_all(cache, keywords, i) ==
    IF i > Len(keywords) THEN <<>>
    ELSE <<keywords[i]>> \o uncached_scan_all(cache, keywords, i + 1)

\* the loop that collects the keywords without a cache entry, from position i
RECURSIVE uncached_scan(_, _, _)
uncached_scan(cache, keywords, i) ==
    IF i > Len(keywords) THEN <<>>
    ELSE IF keywords[i] \notin DOMAIN cache
         THEN <<keywords[i]>> \o uncached_scan(cache, keywords, i + 1)
         ELSE uncached_scan(cache, keywords, i + 1)

\* a write through which every entry comes to hold the new vector
cache_put_clobber(cache, kw, emb) ==
    [k \in (DOMAIN cache) \cup {kw} |-> emb]

\* self.embeddings_cache[kw] = emb
cache_put(cache, kw, emb) ==
    [k \in (DOMAIN cache) \cup {kw} |-> IF k = kw THEN emb ELSE cache[k]]

\* for kw, emb in zip(uncached, new_embeddings): store, from position i
RECURSIVE store_new(_, _, _, _)
store_new(cache, uncached, new_embeddings, i) ==
    IF i > Len(uncached) \/ i > Len(new_embeddings) THEN cache
    ELSE store_new(cache_put(cache, uncached[i], new_embeddings[i]),
                   uncached, new_embeddings, i + 1)

\* a retrieval that reads each distinct keyword once
RECURSIVE retrieve_distinct(_, _)
retrieve_distinct(cache, keywords) ==
    IF keywords = <<>> THEN <<>>
    ELSE LET front == SubSeq(keywords, 1, Len(keywords) - 1)
             last  == keywords[Len(keywords)]
         IN  IF last \in Range(front)
             THEN retrieve_distinct(cache, front)
             ELSE Append(retrieve_distinct(cache, front), cache[last])

\* np.array([self.embeddings_cache[kw] for kw in keywords])
retrieve(cache, keywords) == [i \in 1..Len(keywords) |-> cache[keywords[i]]]

\* a version that encodes keyword by keyword and keeps what it got so far
get_embeddings_partial(cache, keywords, encode_ok) ==
    LET uncached == uncached_scan(cache, keywords, 1)
    IN  IF uncached # <<>> /\ ~encode_ok
        THEN [status |-> "error", result |-> None,
              cache |-> cache_put(cache, uncached[1], embed[uncached[1]]),
              encoded |-> <<uncached>>, writes |-> <<uncached[1]>>]
        ELSE LET stored == store_new(cache, uncached, encode(uncached), 1)
             IN  [status |-> "ok", result |-> retrieve(stored, keywords),
                  cache |-> stored,
                  encoded |-> IF uncached = <<>> THEN <<>> ELSE <<uncached>>,
                  writes |-> uncached]

\* get_embeddings(keywords) on a cache; encode_ok says whether model.encode
\* returns or raises.  encoded lists the batches handed to model.encode and
\* writes the keys stored into the cache, in order.
get_embeddings(cache, keywords, encode_ok) ==
    LET uncached == uncached_scan(cache, keywords, 1)
    IN  IF uncached = <<>>
        THEN [status |-> "ok", result |-> retrieve(cache, keywords),
              cache |-> cache, encoded |-> <<>>, writes |-> <<>>]
        ELSE IF ~encode_ok
        THEN [status |-> "error", result |-> None, cache |-> cache,
              encoded |-> <<uncached>>, writes |-> <<>>]
        ELSE LET new_embeddings == encode(uncached)
                 stored == store_new(cache, uncached, new_embeddings, 1)
             IN  [status |-> "ok", result |-> retrieve(stored, keywords),
                  cache |-> stored, encoded |-> <<uncached>>,
                  writes |-> uncached]

(***************************************************************************)
(* Specification of the cache: any sequence of get_embeddings calls on one *)
(* clusterer, each of which may meet a failing model.encode.               *)
(***************************************************************************)
\* the encoders of the cache specifications: one maps the three keywords
\* to three vectors, the other maps "a" and "A b" to the same vector
CacheEncoders ==
    { e \in [KeywordUniverse -> Vectors] :
        /\ e[<<"a">>] = <<5, 0>>
        /\ e[<<>>] = <<0, 5>>
        /\ e[<<"A", " ", "b">>] \in { <<5, 0>>, <<4, 3>> } }

InitCache ==
    /\ ServicesIdle
    /\ embed \in CacheEncoders
    /\ embeddings_cache = <<>>
    /\ call = NoCall
    /\ threads = NoThreads

GetEmbeddings ==
    \E keywords \in KeywordLists(MaxBatch), encode_ok \in BOOLEAN :
        \E r \in { get_embeddings(embeddings_cache, keywords, encode_ok) } :
            /\ embeddings_cache' = r.cache
            /\ call' = [op |-> "get_embeddings", keywords |-> keywords,
                        cache_before |-> embeddings_cache,
                        status |-> r.status, result |-> r.result,
                        encoded |-> r.encoded, writes |-> r.writes]
            /\ UNCHANGED <<embed, threads, services>>

NextCache == GetEmbeddings

SpecCache == InitCache /\ [][NextCache]_vars

Count(s, x) == Cardinality({ i \in 1..Len(s) : s[i] = x })

\* C5: model.encode is invoked at most once per get_embeddings call, with
\* exactly the input keywords that had no cache entry when the call began
\* (in input order), and not at all when every input keyword was cached.
C5_EncodeOnlyUncached ==
    call.op = "get_embeddings" =>
        LET NotCached(k) == k \notin DOMAIN call.cache_before
            missing == SelectSeq(call.keywords, NotCached)
        IN  /\ Len(call.encoded) <= 1
            /\ (missing = <<>>) <=> (call.encoded = <<>>)
            /\ call.encoded # <<>> => call.encoded[1] = missing

\* C5 witness: after "a" and "A b" are cached, a call with the three keywords
\* hands only the third one to model.encode.
C5_Witness ==
    /\ call.op = "get_embeddings"
    /\ DOMAIN call.cache_before = { <<"a">>, <<"A", " ", "b">> }
    /\ call.keywords = << <<"a">>, <<"A", " ", "b">>, <<>> >>
    /\ call.encoded = << << <<>> >> >>

\* C6: the cache only grows and every key is written once: a call removes
\* no key, changes no stored vector, writes no key that was cached before it
\* and writes no key twice, and returns the stored vector for each keyword.
C6_WriteOnce ==
    call.op = "get_embeddings" =>
        /\ \A k \in DOMAIN call.cache_before :
              /\ k \in DOMAIN embeddings_cache
              /\ embeddings_cache[k] = call.cache_before[k]
              /\ Count(call.writes, k) = 0
        /\ \A k \in KeywordUniverse : Count(call.writes, k) <= 1
        /\ call.status = "ok" =>
              \A i \in 1..Len(call.keywords) :
                  call.result[i] = embed[call.keywords[i]]

\* C7: a returning get_embeddings call yields one row per input keyword, in
\* input order: row i is the cached vector of keywords[i], so equal strings
\* get equal rows and the output is as long as the input.
C7_RowPerKeyword ==
    (call.op = "get_embeddings" /\ call.status = "ok") =>
        /\ Len(call.result) = Len(call.keywords)
        /\ \A i \in 1..Len(call.keywords) :
              /\ call.keywords[i] \in DOMAIN embeddings_cache
              /\ call.result[i] = embeddings_cache[call.keywords[i]]
              /\ call.result[i] = embed[call.keywords[i]]

\* C7 witness: a list holding the same string twice and another one between.
C7_Witness ==
    /\ call.op = "get_embeddings" /\ call.status = "ok"
    /\ Len(call.keywords) = 3
    /\ call.keywords[1] = call.keywords[3]
    /\ call.keywords[1] # call.keywords[2]
    /\ call.result[1] = call.result[3]
    /\ call.result[1] # call.result[2]

\* C8: when model.encode fails, the call fails as a whole: it returns no
\* matrix and the cache is exactly the cache the call started with.
C8_FailureLeavesCache ==
    (call.op = "get_embeddings" /\ call.status = "error") =>
        /\ call.result = None
        /\ call.writes = <<>>
        /\ embeddings_cache = call.cache_before

\* C8 witness: a failed call for two uncached keywords on a non-empty cache.
C8_Witness ==
    /\ call.op = "get_embeddings" /\ call.status = "error"
    /\ Len(call.encoded[1]) = 2
    /\ call.cache_before # <<>>
    /\ embeddings_cache = call.cache_before

(***************************************************************************)
(* Two threads inside get_embeddings on one clusterer.  A step is one      *)
(* iteration of the scanning loop (one membership test), the call of       *)
(* model.encode, one iteration of the storing loop (one dictionary write)  *)
(* or one read of the retrieving comprehension; steps of the two threads   *)
(* interleave freely.                                                      *)
(***************************************************************************)
MaxRaceBatch == 2       \* longest keyword list of a racing call

Threads == 1..2

\* moves a thread past a loop whose index ran off the end of its list
RECURSIVE loop_exit(_)
loop_exit(th) ==
    IF th.pc = "scan" /\ th.i > Len(th.keywords)
    THEN loop_exit([th EXCEPT !.pc = IF th.uncached = <<>> THEN "retrieve"
                                     ELSE "encode", !.i = 1])
    ELSE IF th.pc = "store" /\ (th.i > Len(th.uncached)
                                \/ th.i > Len(th.new_embeddings))
    THEN loop_exit([th EXCEPT !.pc = "retrieve", !.i = 1])
    ELSE IF th.pc = "retrieve" /\ th.i > Len(th.keywords)
    THEN [th EXCEPT !.pc = "done"]
    ELSE th

thread_start(keywords) ==
    loop_exit([keywords |-> keywords, pc |-> "scan", i |-> 1,
               uncached |-> <<>>, new_embeddings |-> <<>>, result |-> <<>>])

InitRace ==
    /\ ServicesIdle
    /\ embed \in CacheEncoders
    /\ embeddings_cache = <<>>
    /\ call = NoCall
    /\ threads \in { [t \in Threads |-> thread_start(k[t])] :
                        k \in [Threads -> KeywordLists(MaxRaceBatch)] }

\* if kw not in self.embeddings_cache: uncached.append(kw)
ScanStep(t) ==
    LET th == threads[t]
        kw == th.keywords[th.i]
    IN  /\ th.pc = "scan"
        /\ threads' = [threads EXCEPT ![t] = loop_exit(
              [th EXCEPT !.uncached = IF kw \notin DOMAIN embeddings_cache
                                      THEN Append(th.uncached, kw)
                                      ELSE th.uncached,
                         !.i = th.i + 1])]
        /\ UNCHANGED <<embed, embeddings_cache, call, services>>

\* new_embeddings = self.model.encode(uncached), which returns or raises
EncodeStep(t) ==
    LET th == threads[t]
    IN  /\ th.pc = "encode"
        /\ \E encode_ok \in BOOLEAN :
              threads' = [threads EXCEPT ![t] =
                  IF encode_ok
                  THEN loop_exit([th EXCEPT !.new_embeddings = encode(th.uncached),
                                            !.pc = "store", !.i = 1])
                  ELSE [th EXCEPT !.pc = "failed"]]
        /\ UNCHANGED <<embed, embeddings_cache, call, services>>

\* self.embeddings_cache[kw] = emb
StoreStep(t) ==
    LET th == threads[t]
    IN  /\ th.pc = "store"
        /\ embeddings_cache' = cache_put(embeddings_cache, th.uncached[th.i],
                                         th.new_embeddings[th.i])
        /\ threads' = [threads EXCEPT ![t] = loop_exit([th EXCEPT !.i = th.i + 1])]
        /\ UNCHANGED <<embed, call, services>>

\* self.embeddings_cache[kw] inside the final comprehension
RetrieveStep(t) ==
    LET th == threads[t]
        kw == th.keywords[th.i]
    IN  /\ th.pc = "retrieve"
        /\ threads' = [threads EXCEPT ![t] =
              IF kw \in DOMAIN embeddings_cache
              THEN loop_exit([th EXCEPT !.result = Append(th.result, embeddings_cache[kw]),
                                        !.i = th.i + 1])
              ELSE [th EXCEPT !.pc = "KeyError"]]
        /\ UNCHANGED <<embed, embeddings_cache, call, services>>

NextRace ==
    \E t \in Threads : ScanStep(t) \/ EncodeStep(t) \/ StoreStep(t) \/ RetrieveStep(t)

SpecRace == InitRace /\ [][NextRace]_vars

\* C9: under every interleaving of two get_embeddings calls every cache entry
\* equals embed(key), no call meets a missing key, and a call that returns
\* returns embed(k) for each of its keywords k, in order.
C9_RaceKeepsCache ==
    /\ \A k \in DOMAIN embeddings_cache : embeddings_cache[k] = embed[k]
    /\ \A t \in DOMAIN threads :
          /\ threads[t].pc # "KeyError"
          /\ threads[t].pc = "done" =>
                threads[t].result = [i \in 1..Len(threads[t].keywords) |->
                                        embed[threads[t].keywords[i]]]

\* C9 witness: both calls returned and both computed the same keyword.
C9_Witness ==
    /\ DOMAIN threads = Threads
    /\ \A t \in Threads : threads[t].pc = "done"
    /\ Range(threads[1].uncached) \cap Range(threads[2].uncached) # {}
    /\ Range(threads[1].uncached) # Range(threads[2].uncached)

(***************************************************************************)
(* select_pillar_keyword                                                   *)
(***************************************************************************)
MaxRecords == 4         \* longest list of keyword records
MaxOpportunity == 2     \* largest opportunity score of a record

\* a keyword record is a dictionary that may or may not hold 'opportunity'
EmptyDict == <<>>
KeywordRecords ==
    { EmptyDict } \cup { [opportunity |-> v] : v \in 0..MaxOpportunity }

\* dict.get(key, default)
dict_get(d, key, default) == IF key \in DOMAIN d THEN d[key] ELSE default

\* the loop with >= in place of >
RECURSIVE pillar_loop_last(_, _, _, _, _)
pillar_loop_last(keywords, keyword_data, i, max_opportunity, pillar_idx) ==
    IF i >= Len(keywords) THEN pillar_idx
    ELSE LET data == keyword_data[i + 1]
             opportunity == dict_get(data, "opportunity", 0)
         IN  IF opportunity >= max_opportunity
             THEN pillar_loop_last(keywords, keyword_data, i + 1, opportunity, i)
             ELSE pillar_loop_last(keywords, keyword_data, i + 1,
                                   max_opportunity, pillar_idx)

\* for i, kw in enumerate(keywords): ..., from the 0-based position i
RECURSIVE pillar_loop(_, _, _, _, _)
pillar_loop(keywords, keyword_data, i, max_opportunity, pillar_idx) ==
    IF i >= Len(keywords) THEN pillar_idx
    ELSE LET data == keyword_data[i + 1]
             opportunity == dict_get(data, "opportunity", 0)
         IN  IF opportunity > max_opportunity
             THEN pillar_loop(keywords, keyword_data, i + 1, opportunity, i)
             ELSE pillar_loop(keywords, keyword_data, i + 1,
                              max_opportunity, pillar_idx)

\* max_opportunity = -1; pillar_idx = 0; the loop; return pillar_idx
select_pillar_keyword(keywords, keyword_data) ==
    pillar_loop(keywords, keyword_data, 0, -1, 0)

\* the texts of a list of records, as the orchestrator passes them along
texts_of(keyword_data) == [i \in 1..Len(keyword_data) |-> <<"a">>]

InitPillar ==
    /\ ServicesIdle
    /\ embed = <<>>
    /\ embeddings_cache = <<>>
    /\ threads = NoThreads
    /\ \E n \in 0..MaxRecords : \E keyword_data \in [1..n -> KeywordRecords] :
          call = [op |-> "pillar_input", keyword_data |-> keyword_data]

SelectPillar ==
    /\ call.op = "pillar_input"
    /\ call' = [op |-> "select_pillar_keyword",
                keyword_data |-> call.keyword_data,
                result |-> select_pillar_keyword(texts_of(call.keyword_data),
                                                 call.keyword_data)]
    /\ UNCHANGED <<embed, embeddings_cache, threads, services>>

NextPillar == SelectPillar

SpecPillar == InitPillar /\ [][NextPillar]_vars

HasOpportunity(d) == "opportunity" \in DOMAIN d

\* C3: on a non-empty list of records that all carry an opportunity score,
\* select_pillar_keyword returns the lowest index whose score is the maximum
\* of the list.
C3_FirstMaximum ==
    (/\ call.op = "select_pillar_keyword"
     /\ call.keyword_data # <<>>
     /\ \A i \in 1..Len(call.keyword_data) : HasOpportunity(call.keyword_data[i]))
    =>
        LET d == call.keyword_data
            r == call.result + 1
        IN  /\ r \in 1..Len(d)
            /\ \A i \in 1..Len(d) : d[i].opportunity <= d[r].opportunity
            /\ \A i \in 1..(r - 1) : d[i].opportunity < d[r].opportunity

\* C3 witness: scores with the maximum at indices 1 and 2, as in [10, 95, 95, 3].
C3_Witness ==
    /\ call.op = "select_pillar_keyword"
    /\ call.keyword_data = << [opportunity |-> 1], [opportunity |-> 2],
                              [opportunity |-> 2], [opportunity |-> 0] >>
    /\ call.result = 1

\* C4: a record without an opportunity score is never chosen while some
\* record of the list carries one, and index 0 is returned when none does.
C4_MissingIsLowest ==
    (call.op = "select_pillar_keyword" /\ call.keyword_data # <<>>) =>
        LET d == call.keyword_data
            r == call.result + 1
        IN  /\ r \in 1..Len(d)
            /\ (\E i \in 1..Len(d) : HasOpportunity(d[i])) => HasOpportunity(d[r])
            /\ (\A i \in 1..Len(d) : ~HasOpportunity(d[i])) => call.result = 0

(***************************************************************************)
(* Similarity matrices                                                     *)
(***************************************************************************)
\* the integer that stands for the real number 1.0
Scale == 25 * 24

Dot(u, v) == u[1] * v[1] + u[2] * v[2]

\* Euclidean norm of a vector (the vectors of the model have integer norms)
Norm(v) == CHOOSE r \in 0..Dot(v, v) : r * r = Dot(v, v)

\* sklearn's cosine_similarity of a matrix of row vectors with itself
cosine_similarity(embeddings) ==
    [i \in 1..Len(embeddings) |-> [j \in 1..Len(embeddings) |->
        (Scale * Dot(embeddings[i], embeddings[j]))
            \div (Norm(embeddings[i]) * Norm(embeddings[j]))]]

\* calculate_similarity_matrix(keywords); cosine_similarity rejects the empty
\* array that get_embeddings returns for no keywords
similarity_of(keywords, r) ==
    IF r.status = "error" THEN [status |-> "error", cache |-> r.cache]
    ELSE IF keywords = <<>> THEN [status |-> "error", cache |-> r.cache]
    ELSE [status |-> "ok", cache |-> r.cache,
          similarity |-> cosine_similarity(r.result)]
calculate_similarity_matrix(cache, keywords, encode_ok) ==
    similarity_of(keywords, get_embeddings(cache, keywords, encode_ok))

\* str.lower()
lower_char(c) == IF c = "A" THEN "a" ELSE IF c = "B" THEN "b" ELSE c
lower(kw) == [i \in 1..Len(kw) |-> lower_char(kw[i])]

\* str.split(): the whitespace-separated words of s from position i on, where
\* word holds the characters of the word being read
RECURSIVE split_from(_, _, _)
split_from(s, i, word) ==
    IF i > Len(s) THEN (IF word = <<>> THEN <<>> ELSE <<word>>)
    ELSE IF s[i] = " "
         THEN (IF word = <<>> THEN <<>> ELSE <<word>>) \o split_from(s, i + 1, <<>>)
         ELSE split_from(s, i + 1, Append(word, s[i]))
split(s) == split_from(s, 1, <<>>)

\* set(kw.lower().split())
token_set(kw) == Range(split(lower(kw)))

\* intersection / union if union > 0 else 0.0
jaccard(a, b) ==
    LET intersection == Cardinality(a \cap b)
        union == Cardinality(a \cup b)
    IN  IF union > 0 THEN (Scale * intersection) \div union ELSE 0

\* a matrix whose lower triangle is never written and stays zero
calculate_token_overlap_matrix_upper(keywords) ==
    LET token_sets == [i \in 1..Len(keywords) |-> token_set(keywords[i])]
    IN  [i \in 1..Len(keywords) |-> [j \in 1..Len(keywords) |->
            IF i = j THEN Scale
            ELSE IF i < j THEN jaccard(token_sets[i], token_sets[j])
            ELSE 0]]

\* a matrix whose diagonal is computed like every other entry
calculate_token_overlap_matrix_no_diagonal(keywords) ==
    LET token_sets == [i \in 1..Len(keywords) |-> token_set(keywords[i])]
    IN  [i \in 1..Len(keywords) |-> [j \in 1..Len(keywords) |->
            IF i <= j THEN jaccard(token_sets[i], token_sets[j])
            ELSE jaccard(token_sets[j], token_sets[i])]]

\* _calculate_token_overlap_matrix: 1.0 on the diagonal, the Jaccard
\* similarity of the token sets elsewhere, written at [i][j] and [j][i]
calculate_token_overlap_matrix(keywords) ==
    LET token_sets == [i \in 1..Len(keywords) |-> token_set(keywords[i])]
    IN  [i \in 1..Len(keywords) |-> [j \in 1..Len(keywords) |->
            IF i = j THEN Scale
            ELSE IF i < j THEN jaccard(token_sets[i], token_sets[j])
            ELSE jaccard(token_sets[j], token_sets[i])]]

\* (similarity + token_overlap) / 2.0
combine(similarity, token_overlap) ==
    [i \in DOMAIN similarity |-> [j \in DOMAIN similarity |->
        (similarity[i][j] + token_overlap[i][j]) \div 2]]

\* combined_similarity of cluster_pages: the mean of the embedding similarity
\* and the token overlap of the keywords
combined_similarity(similarity, keywords) ==
    combine(similarity, calculate_token_overlap_matrix(keywords))

\* a conversion that hands the similarity on as the distance
to_distance_same(similarity) == similarity

\* distance = 1 - similarity
to_distance(similarity) ==
    [i \in DOMAIN similarity |-> [j \in DOMAIN similarity |->
        Scale - similarity[i][j]]]

(***************************************************************************)
(* AgglomerativeClustering(n_clusters=None, distance_threshold=d,          *)
(* metric='precomputed', linkage='average').fit_predict(distance):         *)
(* the average-linkage tree is built by the nearest-neighbour chain, its   *)
(* merges are ordered by height, and the tree is cut below d.              *)
(* The distance of two clusters is the pair <<sum of the distances of      *)
(* their points, number of pairs of points>>.                              *)
(***************************************************************************)
Infinity == <<1, 0>>
Less(a, b) == a[1] * b[2] < b[1] * a[2]

slot_dist(st, x, i) == <<st.S[x][i], st.size[x] * st.size[i]>>

\* the live slot nearest to x among the slots i.., a tie going to the
\* candidate held so far
RECURSIVE nn_scan(_, _, _, _, _)
nn_scan(st, x, i, current_min, y) ==
    IF i > Len(st.size) THEN [min |-> current_min, y |-> y]
    ELSE IF st.size[i] = 0 \/ i = x THEN nn_scan(st, x, i + 1, current_min, y)
    ELSE IF Less(slot_dist(st, x, i), current_min)
         THEN nn_scan(st, x, i + 1, slot_dist(st, x, i), i)
         ELSE nn_scan(st, x, i + 1, current_min, y)

\* the nearest neighbour of the slot at the end of the chain, the slot before
\* it in the chain being preferred on a tie
chain_nn(st, chain) ==
    IF Len(chain) > 1
    THEN nn_scan(st, chain[Len(chain)], 1,
                 slot_dist(st, chain[Len(chain)], chain[Len(chain) - 1]),
                 chain[Len(chain) - 1])
    ELSE nn_scan(st, chain[Len(chain)], 1, Infinity, 0)

\* follows nearest neighbours from the end of the chain until two slots are
\* each other's nearest neighbour
RECURSIVE grow_chain(_, _)
RECURSIVE chain_step(_, _, _)
chain_step(st, chain, r) ==
    IF Len(chain) > 1 /\ r.y = chain[Len(chain) - 1]
    THEN [chain |-> chain, x |-> chain[Len(chain)], y |-> r.y, min |-> r.min]
    ELSE grow_chain(st, Append(chain, r.y))
grow_chain(st, chain) == chain_step(st, chain, chain_nn(st, chain))

\* the chain to grow: the one left over, or the first live slot
chain_start(st) ==
    IF st.chain # <<>> THEN st.chain
    ELSE << CHOOSE i \in 1..Len(st.size) :
               st.size[i] > 0 /\ \A j \in 1..(i - 1) : st.size[j] = 0 >>

\* slots x < y become the slot y, whose distances to the live slots are the
\* sums of the distances of x and of y; the chain loses its last two slots
merge_slots(st, chain, x, y, dist) ==
    [S |-> [i \in 1..Len(st.size) |-> [j \in 1..Len(st.size) |->
              IF j = y /\ i # y /\ i # x THEN st.S[i][x] + st.S[i][y]
              ELSE IF i = y /\ j # y /\ j # x THEN st.S[j][x] + st.S[j][y]
              ELSE st.S[i][j]]],
     size |-> [st.size EXCEPT ![x] = 0, ![y] = st.size[x] + st.size[y]],
     members |-> [st.members EXCEPT ![x] = {},
                                    ![y] = st.members[x] \cup st.members[y]],
     chain |-> SubSeq(chain, 1, Len(chain) - 2),
     Z |-> Append(st.Z, [left |-> st.members[x], right |-> st.members[y],
                         dist |-> dist])]

merge_found(st, g) ==
    IF g.x < g.y THEN merge_slots(st, g.chain, g.x, g.y, g.min)
    ELSE merge_slots(st, g.chain, g.y, g.x, g.min)

\* one merge of the two mutual nearest neighbours
merge_step(st) == merge_found(st, grow_chain(st, chain_start(st)))

RECURSIVE nn_chain(_, _)
nn_chain(st, k) ==
    IF k >= Len(st.size) - 1 THEN st.Z ELSE nn_chain(merge_step(st), k + 1)

\* a merge put behind the merges of a sorted list that are not higher
insert_row(sorted, row) ==
    LET keep == Cardinality({ i \in 1..Len(sorted) : ~Less(row.dist, sorted[i].dist) })
    IN  SubSeq(sorted, 1, keep) \o <<row>> \o SubSeq(sorted, keep + 1, Len(sorted))

\* stable sort of the merges by height
RECURSIVE sort_by_height(_)
sort_by_height(Z) ==
    IF Z = <<>> THEN <<>>
    ELSE insert_row(sort_by_height(SubSeq(Z, 1, Len(Z) - 1)), Z[Len(Z)])

\* the state of the chain algorithm before the first merge
chain_init(distance) ==
    [S |-> [i \in 1..Len(distance) |-> [j \in 1..Len(distance) |->
              IF i < j THEN distance[i][j] ELSE distance[j][i]]],
     size |-> [i \in 1..Len(distance) |-> 1],
     members |-> [i \in 1..Len(distance) |-> {i - 1}],
     chain |-> <<>>,
     Z |-> <<>>]

\* scipy.cluster.hierarchy.linkage on the upper triangle of the matrix
linkage(distance) == sort_by_height(nn_chain(chain_init(distance), 0))

\* the nodes of the tree left after the first m merges: the leaves are the
\* nodes 0..n-1 and merge k makes node n+k-1
RECURSIVE live_nodes(_, _, _)
live_nodes(Z, n, m) ==
    IF m = 0 THEN { [node |-> i, members |-> {i}] : i \in 0..(n - 1) }
    ELSE { c \in live_nodes(Z, n, m - 1) :
              c.members # Z[m].left /\ c.members # Z[m].right }
            \cup { [node |-> n + m - 1, members |-> Z[m].left \cup Z[m].right] }

\* the label of every leaf: the clusters are numbered from the node made
\* last downwards
number_nodes(live, n) ==
    [i \in 1..n |->
        Cardinality({ c \in live :
            \E mine \in live : (i - 1) \in mine.members /\ c.node > mine.node })]

\* _hc_cut: the n_clusters - 1 nodes made last are split
hc_cut(n_clusters, Z, n) == number_nodes(live_nodes(Z, n, n - n_clusters), n)

\* a cut that also applies the merges whose height is distance_threshold
cut_tree_inclusive(Z, n, distance_threshold) ==
    hc_cut(1 + Cardinality({ k \in 1..Len(Z) :
                Less(<<distance_threshold, 1>>, Z[k].dist) }), Z, n)

\* n_clusters_ is one more than the number of merges whose height is at
\* least distance_threshold
cut_tree(Z, n, distance_threshold) ==
    hc_cut(1 + Cardinality({ k \in 1..Len(Z) :
                ~Less(Z[k].dist, <<distance_threshold, 1>>) }), Z, n)

\* labels_ of the fitted estimator
fit_predict(distance, distance_threshold) ==
    cut_tree(linkage(distance), Len(distance), distance_threshold)

(***************************************************************************)
(* cluster_topics and cluster_pages                                        *)
(***************************************************************************)
\* a conversion that passes the similarity threshold on as a distance
distance_threshold_same(threshold) == threshold

\* distance_threshold = 1 - threshold
distance_threshold_of(threshold) == Scale - threshold

\* a loop that starts the list of a label afresh at every index
RECURSIVE group_loop_overwrite(_, _, _)
group_loop_overwrite(labels, idx, clusters) ==
    IF idx >= Len(labels) THEN clusters
    ELSE LET label == labels[idx + 1]
             known == \E c \in 1..Len(clusters) : clusters[c].label = label
             opened == IF known THEN clusters
                       ELSE Append(clusters, [label |-> label, members |-> <<>>])
         IN  group_loop_overwrite(labels, idx + 1,
                [c \in 1..Len(opened) |->
                    IF opened[c].label = label
                    THEN [opened[c] EXCEPT !.members = <<idx>>]
                    ELSE opened[c]])

\* a loop that puts every index at the front of the list of its label
RECURSIVE group_loop_prepend(_, _, _)
group_loop_prepend(labels, idx, clusters) ==
    IF idx >= Len(labels) THEN clusters
    ELSE LET label == labels[idx + 1]
             known == \E c \in 1..Len(clusters) : clusters[c].label = label
             opened == IF known THEN clusters
                       ELSE Append(clusters, [label |-> label, members |-> <<>>])
         IN  group_loop_prepend(labels, idx + 1,
                [c \in 1..Len(opened) |->
                    IF opened[c].label = label
                    THEN [opened[c] EXCEPT !.members = <<idx>> \o @]
                    ELSE opened[c]])

\* for idx, label in enumerate(labels): the dictionary label -> indices, in
\* insertion order, from the 0-based position idx
RECURSIVE group_loop(_, _, _)
group_loop(labels, idx, clusters) ==
    IF idx >= Len(labels) THEN clusters
    ELSE LET label == labels[idx + 1]
             known == \E c \in 1..Len(clusters) : clusters[c].label = label
             opened == IF known THEN clusters
                       ELSE Append(clusters, [label |-> label, members |-> <<>>])
         IN  group_loop(labels, idx + 1,
                [c \in 1..Len(opened) |->
                    IF opened[c].label = label
                    THEN [opened[c] EXCEPT !.members = Append(@, idx)]
                    ELSE opened[c]])

\* list(clusters.values())
group_by_label(labels) ==
    LET clusters == group_loop(labels, 0, <<>>)
    IN  [c \in 1..Len(clusters) |-> clusters[c].members]

\* the clusters of a distance matrix at a similarity threshold
cluster_distance(distance, threshold) ==
    group_by_label(fit_predict(distance, distance_threshold_of(threshold)))

\* cluster_topics after its similarity matrix was computed (or failed)
topics_of(sm, threshold) ==
    IF sm.status = "error" THEN [status |-> "error", cache |-> sm.cache]
    ELSE [status |-> "ok", cache |-> sm.cache,
          clusters |-> cluster_distance(to_distance(sm.similarity), threshold)]

\* a pass that fetches the embeddings before it looks at the length
cluster_topics_embed_first(cache, keywords, threshold, encode_ok) ==
    IF Len(keywords) < 2
    THEN [status |-> get_embeddings(cache, keywords, encode_ok).status,
          cache |-> get_embeddings(cache, keywords, encode_ok).cache,
          clusters |-> IF keywords # <<>> THEN << <<0>> >> ELSE <<>>]
    ELSE topics_of(calculate_similarity_matrix(cache, keywords, encode_ok),
                   threshold)

\* cluster_topics: lists of fewer than two keywords return at once
cluster_topics(cache, keywords, threshold, encode_ok) ==
    IF Len(keywords) < 2
    THEN [status |-> "ok", cache |-> cache,
          clusters |-> IF keywords # <<>> THEN << <<0>> >> ELSE <<>>]
    ELSE topics_of(calculate_similarity_matrix(cache, keywords, encode_ok),
                   threshold)

\* cluster_pages after its similarity matrix was computed (or failed)
pages_of(sm, keywords, threshold) ==
    IF sm.status = "error" THEN [status |-> "error", cache |-> sm.cache]
    ELSE [status |-> "ok", cache |-> sm.cache,
          clusters |-> cluster_distance(
              to_distance(combined_similarity(sm.similarity, keywords)),
              threshold)]

cluster_pages(cache, keywords, threshold, encode_ok) ==
    IF Len(keywords) < 2
    THEN [status |-> "ok", cache |-> cache,
          clusters |-> IF keywords # <<>> THEN << <<0>> >> ELSE <<>>]
    ELSE pages_of(calculate_similarity_matrix(cache, keywords, encode_ok),
                  keywords, threshold)

(***************************************************************************)
(* Specification of the clustering passes: a keyword list and an encoder   *)
(* for its strings are drawn, and cluster_topics or cluster_pages is        *)
(* called on the list with any threshold on a fresh clusterer.             *)
(***************************************************************************)
MaxKeywords == 3        \* longest keyword list handed to a clustering pass

\* similarity thresholds: 0, the similarities the vectors and token sets
\* produce, the configured 0.78 and 0.88, and 1
Thresholds == { 0, 288, 468, 480, 528, Scale }

InitCluster ==
    /\ ServicesIdle
    /\ embeddings_cache = <<>>
    /\ threads = NoThreads
    /\ \E keywords \in KeywordLists(MaxKeywords) :
          /\ embed \in [Range(keywords) -> Vectors]
          /\ call = [op |-> "cluster_input", keywords |-> keywords]

ClusterTopics ==
    /\ call.op = "cluster_input"
    /\ \E threshold \in Thresholds, encode_ok \in BOOLEAN :
          \E r \in { cluster_topics(embeddings_cache, call.keywords, threshold, encode_ok) } :
              /\ embeddings_cache' = r.cache
              /\ call' = [op |-> "cluster_topics", keywords |-> call.keywords,
                          threshold |-> threshold, encode_ok |-> encode_ok,
                          status |-> r.status,
                          clusters |-> IF r.status = "ok" THEN r.clusters ELSE None]
              /\ UNCHANGED <<embed, threads, services>>

ClusterPages ==
    /\ call.op = "cluster_input"
    /\ \E threshold \in Thresholds, encode_ok \in BOOLEAN :
          \E r \in { cluster_pages(embeddings_cache, call.keywords, threshold, encode_ok) } :
              /\ embeddings_cache' = r.cache
              /\ call' = [op |-> "cluster_pages", keywords |-> call.keywords,
                          threshold |-> threshold, encode_ok |-> encode_ok,
                          status |-> r.status,
                          clusters |-> IF r.status = "ok" THEN r.clusters ELSE None]
              /\ UNCHANGED <<embed, threads, services>>

NextCluster == ClusterTopics \/ ClusterPages

SpecCluster == InitCluster /\ [][NextCluster]_vars

ClusterCallReturned ==
    call.op \in {"cluster_topics", "cluster_pages"} /\ call.status = "ok"

\* C1: the clusters a clustering pass returns for n >= 1 keywords partition
\* the indices 0..n-1: no cluster is empty and every index occurs exactly
\* once over all clusters.
C1_ClustersPartition ==
    (ClusterCallReturned /\ Len(call.keywords) >= 1) =>
        /\ \A c \in 1..Len(call.clusters) : call.clusters[c] # <<>>
        /\ \A idx \in 0..(Len(call.keywords) - 1) :
              Cardinality({ <<c, p>> \in (1..Len(call.clusters)) \X (1..MaxKeywords + 1) :
                              /\ p <= Len(call.clusters[c])
                              /\ call.clusters[c][p] = idx }) = 1
        /\ \A c \in 1..Len(call.clusters) :
              Range(call.clusters[c]) \subseteq 0..(Len(call.keywords) - 1)

\* C1 witness: three keywords returned as one cluster of two and a singleton.
C1_Witness ==
    /\ ClusterCallReturned
    /\ Len(call.keywords) = 3
    /\ Len(call.clusters) = 2

\* the number of clusters the pass of the last call returns at a threshold
ClusterCountAt(threshold) ==
    IF call.op = "cluster_topics"
    THEN Len(cluster_topics(embeddings_cache, call.keywords, threshold, TRUE).clusters)
    ELSE Len(cluster_pages(embeddings_cache, call.keywords, threshold, TRUE).clusters)

\* C2: for the keyword list, encoder and pass of a call, the number of
\* clusters does not decrease when the threshold grows: at every threshold
\* at or above the one of the call the pass returns at least as many clusters
\* as the call returned.
C2_CountMonotone ==
    ClusterCallReturned =>
        \A t \in Thresholds :
            t >= call.threshold => ClusterCountAt(t) >= Len(call.clusters)

\* C2 witness: a call that returned two clusters where a lower threshold
\* gives one and a higher threshold gives three.
C2_Witness ==
    /\ ClusterCallReturned
    /\ Len(call.clusters) = 2
    /\ \E t \in Thresholds : t < call.threshold /\ ClusterCountAt(t) = 1
    /\ \E t \in Thresholds : t > call.threshold /\ ClusterCountAt(t) = 3

\* C15: a clustering pass on no keywords returns no cluster and on one
\* keyword returns [[0]], at every threshold, without calling the encoder
\* (the call succeeds also when the encoder would fail) and without changing
\* the embedding cache.
C15_ShortListNoSimilarity ==
    (/\ call.op \in {"cluster_topics", "cluster_pages"}
     /\ Len(call.keywords) < 2)
    => /\ call.status = "ok"
       /\ call.clusters = IF call.keywords = <<>> THEN <<>> ELSE << <<0>> >>
       /\ embeddings_cache = <<>>

\* C15 witness: a pass on one keyword returned [[0]] with an encoder that
\* fails when called.
C15_Witness ==
    /\ call.op \in {"cluster_topics", "cluster_pages"}
    /\ Len(call.keywords) = 1
    /\ ~call.encode_ok
    /\ call.clusters = << <<0>> >>

\* C19: in every cluster a clustering pass returns the indices are strictly
\* increasing from one position to the next.
C19_IndicesAscending ==
    ClusterCallReturned =>
        \A c \in 1..Len(call.clusters) :
            \A p \in 1..(Len(call.clusters[c]) - 1) :
                call.clusters[c][p] < call.clusters[c][p + 1]

\* C19 witness: a pass returned the first and the last of three keywords in
\* one cluster, in this order, and the second in a cluster of its own.
C19_Witness ==
    /\ ClusterCallReturned
    /\ Len(call.keywords) = 3
    /\ \E c, d \in 1..Len(call.clusters) :
          call.clusters[c] = <<0, 2>> /\ call.clusters[d] = <<1>>

(***************************************************************************)
(* Specification of repeated clustering: a keyword list and an encoder are *)
(* drawn, a pass is run on the list, and the same pass is run again with   *)
(* the same threshold on the same clusterer, whose cache the first run may *)
(* have filled.                                                            *)
(***************************************************************************)
MaxRepeat == 4          \* longest keyword list clustered twice

\* the keywords of the repeated runs: four different strings
RepeatKeywords == KeywordUniverse \cup { <<"b">> }

\* the encoders of the repeated runs: one gives four directions around
\* (5, 0), the other gives "A b" and "b" the same vector
RepeatEncoders ==
    { (<<"a">> :> <<5, 0>>) @@ (<<"A", " ", "b">> :> <<4, 3>>)
         @@ (<<"b">> :> <<4, -3>>) @@ (<<>> :> <<0, -5>>),
      (<<"a">> :> <<5, 0>>) @@ (<<"A", " ", "b">> :> <<4, 3>>)
         @@ (<<"b">> :> <<4, 3>>) @@ (<<>> :> <<0, 5>>) }

\* similarity thresholds of the repeated runs: 0.6 and the configured 0.78
\* and 0.88
RepeatThresholds == { 360, 468, 528 }

\* the clusterer method a caller runs
cluster_pass(pass, cache, keywords, threshold, encode_ok) ==
    IF pass = "cluster_topics"
    THEN cluster_topics(cache, keywords, threshold, encode_ok)
    ELSE cluster_pages(cache, keywords, threshold, encode_ok)

InitRepeat ==
    /\ ServicesIdle
    /\ embeddings_cache = <<>>
    /\ threads = NoThreads
    /\ embed \in RepeatEncoders
    /\ \E keywords \in UNION { [1..m -> RepeatKeywords] : m \in 0..MaxRepeat } :
          call = [op |-> "repeat_input", keywords |-> keywords]

FirstRun ==
    /\ call.op = "repeat_input"
    /\ \E pass \in {"cluster_topics", "cluster_pages"},
          threshold \in RepeatThresholds, encode_ok \in BOOLEAN :
          \E r \in { cluster_pass(pass, embeddings_cache, call.keywords, threshold, encode_ok) } :
              /\ embeddings_cache' = r.cache
              /\ call' = [op |-> "first_run", pass |-> pass,
                          keywords |-> call.keywords, threshold |-> threshold,
                          status |-> r.status,
                          clusters |-> IF r.status = "ok" THEN r.clusters ELSE None]
              /\ UNCHANGED <<embed, threads, services>>

SecondRun ==
    /\ call.op = "first_run"
    /\ \E encode_ok \in BOOLEAN :
          \E r \in { cluster_pass(call.pass, embeddings_cache, call.keywords, call.threshold, encode_ok) } :
              /\ embeddings_cache' = r.cache
              /\ call' = [op |-> "second_run", pass |-> call.pass,
                          keywords |-> call.keywords, threshold |-> call.threshold,
                          first_status |-> call.status, first |-> call.clusters,
                          status |-> r.status,
                          clusters |-> IF r.status = "ok" THEN r.clusters ELSE None]
              /\ UNCHANGED <<embed, threads, services>>

NextRepeat == FirstRun \/ SecondRun

SpecRepeat == InitRepeat /\ [][NextRepeat]_vars

\* a run of the repeated-clustering specification that returned clusters
RunReturned ==
    call.op \in {"first_run", "second_run"} /\ call.status = "ok"

\* the distance matrix of the run, from the vectors of the encoder
RunDistance ==
    LET n == Len(call.keywords)
        semantic == cosine_similarity([i \in 1..n |-> embed[call.keywords[i]]])
        used == IF call.pass = "cluster_topics" THEN semantic
                ELSE combined_similarity(semantic, call.keywords)
    IN  [i \in 1..n |-> [j \in 1..n |-> Scale - used[i][j]]]

\* the sum of the distances of the pairs of indices in a set
RECURSIVE SumDist(_, _)
SumDist(distance, pairs) ==
    IF pairs = {} THEN 0
    ELSE LET p == CHOOSE q \in pairs : TRUE
         IN  distance[p[1] + 1][p[2] + 1] + SumDist(distance, pairs \ {p})

\* the average distance of two clusters of indices, as <<sum, count>>
RefDist(distance, A, B) ==
    <<SumDist(distance, A \X B), Cardinality(A) * Cardinality(B)>>

MinOf(S) == CHOOSE x \in S : \A y \in S : x <= y

\* the pairs of clusters of a partition, the cluster of the lower least
\* index first
RefPairs(P) == { pr \in P \X P : MinOf(pr[1]) < MinOf(pr[2]) }

\* pair p is merged no later than pair q: it is closer, or as close and of
\* lower input indices
RefBefore(distance, p, q) ==
    \/ Less(RefDist(distance, p[1], p[2]), RefDist(distance, q[1], q[2]))
    \/ /\ ~Less(RefDist(distance, q[1], q[2]), RefDist(distance, p[1], p[2]))
       /\ \/ MinOf(p[1]) < MinOf(q[1])
          \/ MinOf(p[1]) = MinOf(q[1]) /\ MinOf(p[2]) <= MinOf(q[2])

RefClosest(distance, P) ==
    CHOOSE p \in RefPairs(P) : \A q \in RefPairs(P) : RefBefore(distance, p, q)

\* average-linkage clustering that merges the closest pair of clusters, of
\* several closest pairs the one of the lower input indices, as long as the
\* closest pair is nearer than the distance threshold
RECURSIVE RefMerge(_, _, _)
RefMerge(distance, P, distance_threshold) ==
    IF Cardinality(P) < 2 THEN P
    ELSE LET p == RefClosest(distance, P)
         IN  IF ~Less(RefDist(distance, p[1], p[2]), <<distance_threshold, 1>>)
             THEN P
             ELSE RefMerge(distance, (P \ {p[1], p[2]}) \cup {p[1] \cup p[2]},
                           distance_threshold)

\* the partition the run returned is the one of lower-index-first merging
LowerIndexFirst ==
    { Range(call.clusters[c]) : c \in 1..Len(call.clusters) }
       = RefMerge(RunDistance, { {i} : i \in 0..(Len(call.keywords) - 1) },
                  Scale - call.threshold)

\* two runs that both returned, returned the same clusters
SameTwice ==
    (call.op = "second_run" /\ call.first_status = "ok" /\ call.status = "ok")
        => call.clusters = call.first

\* C18 as claimed: a second run of a pass with the same keywords, encoder
\* and threshold returns the clusters of the first, and the partition of
\* every run is the one obtained by merging, among the cluster pairs at
\* equal distance, the pair of the lower input indices first.
C18_LowerIndexFirst ==
    /\ SameTwice
    /\ (RunReturned /\ Len(call.keywords) >= 2) => LowerIndexFirst

\* C18 amended: a second run returns the clusters of the first, and for
\* lists of up to three keywords the partition is the one obtained by
\* merging the pair of the lower input indices first among pairs at equal
\* distance.
C18_LowerIndexFirstUpToThree ==
    /\ SameTwice
    /\ (RunReturned /\ Len(call.keywords) \in 2..3) => LowerIndexFirst

\* C18 witness: a second run on three keywords whose first and second are as
\* far apart as the second and third, which returned [[0,1],[2]] as the
\* first run did.
C18_Witness ==
    /\ call.op = "second_run"
    /\ call.first_status = "ok"
    /\ call.status = "ok"
    /\ Len(call.keywords) = 3
    /\ RunDistance[1][2] = RunDistance[2][3]
    /\ RunDistance[1][2] < RunDistance[1][3]
    /\ call.clusters = << <<0, 1>>, <<2>> >>
    /\ call.first = << <<0, 1>>, <<2>> >>

\* the clusters a run returned, as sets of indices
RunClusters == { Range(call.clusters[c]) : c \in 1..Len(call.clusters) }

\* C27 as claimed: merging goes on until the least average distance between
\* clusters exceeds 1 - t: any two different clusters returned for threshold
\* t are at an average distance strictly greater than 1 - t.
C27_MergedUntilExceeds ==
    RunReturned =>
        LET distance == RunDistance
        IN  \A A, B \in RunClusters :
                A # B => Less(<<Scale - call.threshold, 1>>, RefDist(distance, A, B))

\* C27 amended: any two different clusters returned for threshold t are at
\* an average distance of at least 1 - t, and every returned cluster of two
\* or more keywords holds two keywords at a distance less than 1 - t, so
\* that two keywords at exactly 1 - t are not merged with each other.
C27_MergedBelowOnly ==
    RunReturned =>
        LET distance == RunDistance
        IN  /\ \A A, B \in RunClusters :
                   A # B => ~Less(RefDist(distance, A, B), <<Scale - call.threshold, 1>>)
            /\ \A A \in RunClusters :
                   Cardinality(A) >= 2 =>
                       \E i, j \in A : i # j /\ distance[i + 1][j + 1] < Scale - call.threshold

\* C27 witness: a run returned a cluster of two keywords and two clusters
\* whose average distance is exactly 1 - t.
C27_Witness ==
    /\ RunReturned
    /\ \E A \in RunClusters : Cardinality(A) = 2
    /\ \E A, B \in RunClusters :
           /\ A # B
           /\ ~Less(RefDist(RunDistance, A, B), <<Scale - call.threshold, 1>>)
           /\ ~Less(<<Scale - call.threshold, 1>>, RefDist(RunDistance, A, B))

(***************************************************************************)
(* Specification of the similarity matrices: a keyword list and an encoder *)
(* are drawn, and either the token-overlap matrix of the list is computed  *)
(* or the matrices cluster_pages computes before it clusters.              *)
(***************************************************************************)
InitMatrix ==
    /\ ServicesIdle
    /\ embeddings_cache = <<>>
    /\ threads = NoThreads
    /\ \E keywords \in KeywordLists(MaxKeywords) :
          /\ embed \in [Range(keywords) -> Vectors]
          /\ call = [op |-> "matrix_input", keywords |-> keywords]

TokenOverlapMatrix ==
    /\ call.op = "matrix_input"
    /\ call' = [op |-> "_calculate_token_overlap_matrix",
                keywords |-> call.keywords,
                token_overlap |-> calculate_token_overlap_matrix(call.keywords)]
    /\ UNCHANGED <<embed, embeddings_cache, threads, services>>

\* cluster_pages from its similarity matrix to the combined matrix
CombinedSimilarity ==
    /\ call.op = "matrix_input"
    /\ Len(call.keywords) >= 2
    /\ \E encode_ok \in BOOLEAN :
          \E sm \in { calculate_similarity_matrix(embeddings_cache, call.keywords, encode_ok) } :
              /\ embeddings_cache' = sm.cache
              /\ call' = IF sm.status = "error"
                         THEN [op |-> "combined_similarity",
                               keywords |-> call.keywords, status |-> "error"]
                         ELSE [op |-> "combined_similarity",
                               keywords |-> call.keywords, status |-> "ok",
                               similarity |-> sm.similarity,
                               token_overlap |->
                                   calculate_token_overlap_matrix(call.keywords),
                               combined |->
                                   combined_similarity(sm.similarity, call.keywords)]
              /\ UNCHANGED <<embed, threads, services>>

NextMatrix == TokenOverlapMatrix \/ CombinedSimilarity

SpecMatrix == InitMatrix /\ [][NextMatrix]_vars

\* a state that holds a computed token-overlap matrix
HasTokenOverlap ==
    \/ call.op = "_calculate_token_overlap_matrix"
    \/ call.op = "combined_similarity" /\ call.status = "ok"

\* the keyword has a token: a character that is not a space
HasToken(kw) == \E p \in 1..Len(kw) : kw[p] # " "

\* C16 as claimed: the token-overlap matrix is symmetric and the entry of two
\* positions that hold the same keyword string is 1.0, on the diagonal and
\* off it.
C16_SelfOverlapOne ==
    HasTokenOverlap =>
        LET m == call.token_overlap
            n == Len(call.keywords)
        IN  /\ \A i, j \in 1..n : m[i][j] = m[j][i]
            /\ \A i, j \in 1..n :
                  call.keywords[i] = call.keywords[j] => m[i][j] = Scale

\* C16 amended: the token-overlap matrix is symmetric, its diagonal is 1.0,
\* and the entry of two different positions that hold the same keyword string
\* is 1.0 when the string has a token and 0.0 when it has none.
C16_SelfOverlapOneWithTokens ==
    HasTokenOverlap =>
        LET m == call.token_overlap
            n == Len(call.keywords)
        IN  /\ \A i, j \in 1..n : m[i][j] = m[j][i]
            /\ \A i \in 1..n : m[i][i] = Scale
            /\ \A i, j \in 1..n :
                  (i # j /\ call.keywords[i] = call.keywords[j]) =>
                      m[i][j] = IF HasToken(call.keywords[i]) THEN Scale ELSE 0

\* C16 witness: the matrix of a list that holds a keyword with tokens at its
\* first and third position and, between them, a keyword that shares some
\* but not all tokens with it.
C16_Witness ==
    /\ call.op = "_calculate_token_overlap_matrix"
    /\ Len(call.keywords) = 3
    /\ call.keywords[1] = call.keywords[3]
    /\ HasToken(call.keywords[1])
    /\ call.token_overlap[1][3] = Scale
    /\ call.token_overlap[1][2] \notin {0, Scale}
    /\ call.token_overlap[2][1] = call.token_overlap[1][2]

\* C17: every diagonal entry of the token-overlap matrix is 1.0, also for a
\* keyword without tokens, and every diagonal entry of the combined matrix
\* of cluster_pages is 1.0 where the diagonal entry of the embedding
\* similarity is 1.0.
C17_DiagonalOne ==
    /\ HasTokenOverlap =>
          \A i \in 1..Len(call.keywords) : call.token_overlap[i][i] = Scale
    /\ (call.op = "combined_similarity" /\ call.status = "ok") =>
          \A i \in 1..Len(call.keywords) :
              call.similarity[i][i] = Scale => call.combined[i][i] = Scale

\* C17 witness: the combined matrix of a list with a keyword without tokens,
\* whose diagonal entries are 1.0 and whose other entries are not all 1.0.
C17_Witness ==
    /\ call.op = "combined_similarity"
    /\ call.status = "ok"
    /\ \E i \in 1..Len(call.keywords) :
          /\ ~HasToken(call.keywords[i])
          /\ call.similarity[i][i] = Scale
          /\ call.combined[i][i] = Scale
    /\ \E i, j \in 1..Len(call.keywords) : call.combined[i][j] < Scale

(***************************************************************************)
(* build_hub_cluster_graph                                                 *)
(***************************************************************************)
IndexError == "IndexError"

\* seq[idx] of a Python list: positions -len..-1 count from the end
py_index(seq, idx) ==
    IF 0 <= idx /\ idx < Len(seq) THEN seq[idx + 1]
    ELSE IF -Len(seq) <= idx /\ idx < 0 THEN seq[Len(seq) + idx + 1]
    ELSE IndexError

\* G.add_node(node_id, keyword=..., type=...) on the node list of the graph
add_node(G, node_id, keyword, type) ==
    IF \E k \in 1..Len(G.nodes) : G.nodes[k].id = node_id
    THEN [G EXCEPT !.nodes = [k \in 1..Len(G.nodes) |->
              IF G.nodes[k].id = node_id
              THEN [id |-> node_id, keyword |-> keyword, type |-> type]
              ELSE G.nodes[k]]]
    ELSE [G EXCEPT !.nodes = Append(@, [id |-> node_id, keyword |-> keyword,
                                        type |-> type])]

\* G.add_edge(source, target, type=...)
add_edge(G, source, target, type) ==
    IF \E k \in 1..Len(G.edges) :
          G.edges[k].source = source /\ G.edges[k].target = target
    THEN [G EXCEPT !.edges = [k \in 1..Len(G.edges) |->
              IF G.edges[k].source = source /\ G.edges[k].target = target
              THEN [source |-> source, target |-> target, type |-> type]
              ELSE G.edges[k]]]
    ELSE [G EXCEPT !.edges = Append(@, [source |-> source, target |-> target,
                                        type |-> type])]

\* a spoke numbered group_idx instead of group_idx + 1
add_spoke_zero_based(acc, topic_keywords, page_group, group_idx) ==
    [G |-> add_edge(add_node(acc.G, group_idx,
                             py_index(topic_keywords, py_index(page_group, 0)),
                             "spoke"),
                    0, group_idx, "hub_to_spoke"),
     spoke_nodes |-> Append(acc.spoke_nodes,
                            <<group_idx, py_index(page_group, 0)>>)]

\* a spoke whose hub edge runs from the spoke to the hub
add_spoke_reversed(acc, topic_keywords, page_group, group_idx) ==
    [G |-> add_edge(add_node(acc.G, group_idx + 1,
                             py_index(topic_keywords, py_index(page_group, 0)),
                             "spoke"),
                    group_idx + 1, 0, "hub_to_spoke"),
     spoke_nodes |-> Append(acc.spoke_nodes,
                            <<group_idx + 1, py_index(page_group, 0)>>)]

\* one spoke and its hub edge for the page group at the 0-based group_idx
add_spoke(acc, topic_keywords, page_group, group_idx) ==
    [G |-> add_edge(add_node(acc.G, group_idx + 1,
                             py_index(topic_keywords, py_index(page_group, 0)),
                             "spoke"),
                    0, group_idx + 1, "hub_to_spoke"),
     spoke_nodes |-> Append(acc.spoke_nodes,
                            <<group_idx + 1, py_index(page_group, 0)>>)]

\* a loop that makes a spoke of every page group, the pillar's included
RECURSIVE spoke_loop_no_skip(_, _, _, _, _)
spoke_loop_no_skip(acc, topic_keywords, page_groups, pillar_idx, group_idx) ==
    IF group_idx >= Len(page_groups) THEN acc
    ELSE spoke_loop_no_skip(add_spoke(acc, topic_keywords,
                                      page_groups[group_idx + 1], group_idx),
                            topic_keywords, page_groups, pillar_idx, group_idx + 1)

\* for group_idx, page_group in enumerate(page_groups): the groups holding
\* pillar_idx are skipped, every other group becomes a spoke
RECURSIVE spoke_loop(_, _, _, _, _)
spoke_loop(acc, topic_keywords, page_groups, pillar_idx, group_idx) ==
    IF group_idx >= Len(page_groups) THEN acc
    ELSE IF pillar_idx \in Range(page_groups[group_idx + 1])
    THEN spoke_loop(acc, topic_keywords, page_groups, pillar_idx, group_idx + 1)
    ELSE spoke_loop(add_spoke(acc, topic_keywords, page_groups[group_idx + 1],
                              group_idx),
                    topic_keywords, page_groups, pillar_idx, group_idx + 1)

\* sibling edges only strictly above the threshold
add_siblings_strict(G, similarity, sibling_threshold, a, b) ==
    IF py_index(py_index(similarity, a[2]), b[2]) > sibling_threshold
    THEN add_edge(add_edge(G, a[1], b[1], "sibling"), b[1], a[1], "sibling")
    ELSE G

\* the two sibling edges of a pair of spokes at or above the threshold
add_siblings(G, similarity, sibling_threshold, a, b) ==
    IF py_index(py_index(similarity, a[2]), b[2]) >= sibling_threshold
    THEN add_edge(add_edge(G, a[1], b[1], "sibling"), b[1], a[1], "sibling")
    ELSE G

\* the two loops over the pairs i < j of spoke_nodes, from the pair (i, j)
RECURSIVE sibling_loop(_, _, _, _, _, _)
sibling_loop(G, spoke_nodes, similarity, sibling_threshold, i, j) ==
    IF i > Len(spoke_nodes) THEN G
    ELSE IF j > Len(spoke_nodes)
    THEN sibling_loop(G, spoke_nodes, similarity, sibling_threshold, i + 1, i + 2)
    ELSE sibling_loop(add_siblings(G, similarity, sibling_threshold,
                                   spoke_nodes[i], spoke_nodes[j]),
                      spoke_nodes, similarity, sibling_threshold, i, j + 1)

\* G.edges(data=True): the edges by source node, the sources in the order
\* in which the nodes were added
edges_view(G) ==
    LET OfNode(k) == SelectSeq(G.edges, LAMBDA e : e.source = G.nodes[k].id)
        RECURSIVE upto(_)
        upto(k) == IF k = 0 THEN <<>> ELSE upto(k - 1) \o OfNode(k)
    IN  upto(Len(G.nodes))

\* graph_data: the node list and the edge list
graph_data(G) == [nodes |-> G.nodes, edges |-> edges_view(G)]

\* the graph once the spokes are known
graph_of_spokes(acc, similarity, sibling_threshold) ==
    graph_data(sibling_loop(acc.G, acc.spoke_nodes, similarity,
                            sibling_threshold, 1, 2))

\* the function after its similarity matrix was computed (or failed)
graph_of(sm, topic_keywords, page_groups, pillar_idx, sibling_threshold) ==
    IF sm.status = "error"
    THEN [status |-> "error", cache |-> sm.cache, graph |-> None]
    ELSE IF py_index(topic_keywords, pillar_idx) = IndexError
    THEN [status |-> "error", cache |-> sm.cache, graph |-> None]
    ELSE [status |-> "ok", cache |-> sm.cache,
          graph |-> graph_of_spokes(
              spoke_loop([G |-> add_node([nodes |-> <<>>, edges |-> <<>>], 0,
                                         py_index(topic_keywords, pillar_idx),
                                         "hub"),
                          spoke_nodes |-> <<>>],
                         topic_keywords, page_groups, pillar_idx, 0),
              sm.similarity, sibling_threshold)]

build_hub_cluster_graph(cache, topic_keywords, page_groups, pillar_idx, sibling_threshold, encode_ok) ==
    graph_of(calculate_similarity_matrix(cache, topic_keywords, encode_ok),
             topic_keywords, page_groups, pillar_idx, sibling_threshold)

(***************************************************************************)
(* Specification of the graph builder: a topic, its page groups, a pillar  *)
(* index and a sibling threshold are drawn and the graph is built once.    *)
(***************************************************************************)
MaxTopic == 4           \* most keywords of a topic

\* the topics: the keywords "a", "A b", "" taken in turn from any of them
TopicLists ==
    LET turn == << <<"a">>, <<"A", " ", "b">>, <<>> >>
    IN  { [i \in 1..n |-> turn[((i + s) % 3) + 1]] : n \in 0..MaxTopic, s \in 0..2 }

\* the encoders of the graph specification
GraphVectors == { <<5, 0>>, <<4, 3>> }

\* the lists of page groups of n keywords: the partitions of 0..n-1, the
\* indices of a group ascending and the groups by their first index
RECURSIVE PageGroupings(_)
PageGroupings(n) ==
    IF n = 0 THEN { <<>> }
    ELSE UNION { { Append(g, <<n - 1>>) } \cup
                 { [g EXCEPT ![k] = Append(@, n - 1)] : k \in 1..Len(g) }
                 : g \in PageGroupings(n - 1) }

\* the pillar indices: the positions, what lies around them, and 99
PillarIndexes(n) == (-(n + 1))..n \cup {99}

\* sibling thresholds: 0.8 and the configured 0.90
SiblingThresholds == { 480, 540 }

InitGraph ==
    /\ ServicesIdle
    /\ embeddings_cache = <<>>
    /\ threads = NoThreads
    /\ \E topic_keywords \in TopicLists :
          /\ embed \in [Range(topic_keywords) -> GraphVectors]
          /\ \E page_groups \in PageGroupings(Len(topic_keywords)),
                pillar_idx \in PillarIndexes(Len(topic_keywords)),
                sibling_threshold \in SiblingThresholds :
                call = [op |-> "graph_input", topic_keywords |-> topic_keywords,
                        page_groups |-> page_groups, pillar_idx |-> pillar_idx,
                        sibling_threshold |-> sibling_threshold]

BuildHubClusterGraph ==
    /\ call.op = "graph_input"
    /\ \E encode_ok \in BOOLEAN :
          \E r \in { build_hub_cluster_graph(embeddings_cache,
                        call.topic_keywords, call.page_groups, call.pillar_idx,
                        call.sibling_threshold, encode_ok) } :
              /\ embeddings_cache' = r.cache
              /\ call' = [op |-> "build_hub_cluster_graph",
                          topic_keywords |-> call.topic_keywords,
                          page_groups |-> call.page_groups,
                          pillar_idx |-> call.pillar_idx,
                          sibling_threshold |-> call.sibling_threshold,
                          encode_ok |-> encode_ok,
                          status |-> r.status, graph |-> r.graph]
              /\ UNCHANGED <<embed, threads, services>>

NextGraph == BuildHubClusterGraph

SpecGraph == InitGraph /\ [][NextGraph]_vars

\* C10: build_hub_cluster_graph fails and returns no graph whenever
\* pillar_idx is not one of the positions 0..len(topic_keywords)-1 (which
\* includes every call with no topic keywords).
C10_InvalidPillarFails ==
    (/\ call.op = "build_hub_cluster_graph"
     /\ call.pillar_idx \notin 0..(Len(call.topic_keywords) - 1))
    => (call.status = "error" /\ call.graph = None)

\* a call of build_hub_cluster_graph that returned a graph
GraphReturned ==
    call.op = "build_hub_cluster_graph" /\ call.status = "ok"

\* the positions of the nodes of a type in the node list of the graph
NodesOfType(type) ==
    { k \in 1..Len(call.graph.nodes) : call.graph.nodes[k].type = type }

\* the positions of the edges source -> target in the edge list of the graph
EdgesFromTo(source, target) ==
    { e \in 1..Len(call.graph.edges) :
         /\ call.graph.edges[e].source = source
         /\ call.graph.edges[e].target = target }

\* the page groups (by 1-based position) that do not hold the pillar index
SpokeGroups ==
    { k \in 1..Len(call.page_groups) :
         call.pillar_idx \notin Range(call.page_groups[k]) }

\* C11: a returned graph has exactly one node of type hub, with id 0 and the
\* keyword topic_keywords[pillar_idx]; every other node has type spoke and an
\* id other than 0, and no two nodes share an id.
C11_OneHub ==
    GraphReturned =>
        LET nodes == call.graph.nodes
            n == Len(call.topic_keywords)
            hub_position == IF call.pillar_idx >= 0 THEN call.pillar_idx + 1
                            ELSE n + call.pillar_idx + 1
        IN  /\ Cardinality(NodesOfType("hub")) = 1
            /\ \A k \in NodesOfType("hub") :
                  /\ nodes[k].id = 0
                  /\ nodes[k].keyword = call.topic_keywords[hub_position]
            /\ \A k \in 1..Len(nodes) :
                  nodes[k].type # "hub" =>
                      nodes[k].type = "spoke" /\ nodes[k].id # 0
            /\ \A k, l \in 1..Len(nodes) :
                  k # l => nodes[k].id # nodes[l].id

\* C11 witness: a graph with a hub taken from a later position of the topic
\* and two spokes or more.
C11_Witness ==
    /\ GraphReturned
    /\ call.pillar_idx > 0
    /\ call.topic_keywords[call.pillar_idx + 1] # call.topic_keywords[1]
    /\ Cardinality(NodesOfType("spoke")) >= 2

\* C12: every page group without the pillar index has exactly one spoke node
\* (id = position of the group, keyword = the keyword at the group's first
\* index) and exactly one hub_to_spoke edge from node 0; a group holding the
\* pillar index has no node; so spokes, hub_to_spoke edges and groups without
\* the pillar index are equally many.
C12_SpokePerGroup ==
    GraphReturned =>
        LET nodes == call.graph.nodes
            edges == call.graph.edges
        IN  /\ \A k \in SpokeGroups :
                  /\ Cardinality({ i \in 1..Len(nodes) : nodes[i].id = k }) = 1
                  /\ \A i \in 1..Len(nodes) :
                        nodes[i].id = k =>
                            /\ nodes[i].type = "spoke"
                            /\ nodes[i].keyword =
                                  call.topic_keywords[call.page_groups[k][1] + 1]
                  /\ Cardinality(EdgesFromTo(0, k)) = 1
                  /\ \A e \in EdgesFromTo(0, k) : edges[e].type = "hub_to_spoke"
            /\ \A k \in (1..Len(call.page_groups)) \ SpokeGroups :
                  \A i \in 1..Len(nodes) : nodes[i].id # k
            /\ Cardinality(NodesOfType("spoke")) = Cardinality(SpokeGroups)
            /\ Cardinality({ e \in 1..Len(edges) : edges[e].type = "hub_to_spoke" })
                  = Cardinality(SpokeGroups)

\* C12 witness: the groups [[0,1],[2],[3]] with pillar 0 give two spokes and
\* two hub edges.
C12_Witness ==
    /\ GraphReturned
    /\ call.page_groups = << <<0, 1>>, <<2>>, <<3>> >>
    /\ call.pillar_idx = 0
    /\ Cardinality(NodesOfType("spoke")) = 2
    /\ Cardinality({ e \in 1..Len(call.graph.edges) :
                        call.graph.edges[e].type = "hub_to_spoke" }) = 2

\* the cosine similarity of the representative keywords of two spoke nodes,
\* from the vectors of the encoder
SpokeSimilarity(a, b) ==
    LET rep(k) == call.topic_keywords[call.page_groups[call.graph.nodes[k].id][1] + 1]
        u == embed[rep(a)]
        v == embed[rep(b)]
    IN  (Scale * Dot(u, v)) \div (Norm(u) * Norm(v))

\* C13: for every two distinct spokes, a similarity of their representative
\* keywords at or above sibling_threshold gives exactly the two sibling edges
\* a->b and b->a, a similarity below it gives no edge between them; every
\* sibling edge joins two spokes.
C13_SiblingPairs ==
    GraphReturned =>
        LET nodes == call.graph.nodes
            edges == call.graph.edges
            spoke_ids == { nodes[k].id : k \in NodesOfType("spoke") }
        IN  /\ \A a, b \in NodesOfType("spoke") :
                  a # b =>
                      IF SpokeSimilarity(a, b) >= call.sibling_threshold
                      THEN /\ Cardinality(EdgesFromTo(nodes[a].id, nodes[b].id)) = 1
                           /\ Cardinality(EdgesFromTo(nodes[b].id, nodes[a].id)) = 1
                           /\ \A e \in EdgesFromTo(nodes[a].id, nodes[b].id)
                                   \cup EdgesFromTo(nodes[b].id, nodes[a].id) :
                                 edges[e].type = "sibling"
                      ELSE /\ EdgesFromTo(nodes[a].id, nodes[b].id) = {}
                           /\ EdgesFromTo(nodes[b].id, nodes[a].id) = {}
            /\ \A e \in 1..Len(edges) :
                  edges[e].type = "sibling" =>
                      /\ edges[e].source \in spoke_ids
                      /\ edges[e].target \in spoke_ids

\* C13 witness: three spokes, one pair at or above the threshold and joined
\* by sibling edges, another pair below it and not joined.
C13_Witness ==
    /\ GraphReturned
    /\ Cardinality(NodesOfType("spoke")) = 3
    /\ \E a, b \in NodesOfType("spoke") :
          /\ a # b
          /\ SpokeSimilarity(a, b) >= call.sibling_threshold
          /\ EdgesFromTo(call.graph.nodes[a].id, call.graph.nodes[b].id) # {}
    /\ \E a, b \in NodesOfType("spoke") :
          /\ a # b
          /\ SpokeSimilarity(a, b) < call.sibling_threshold
          /\ EdgesFromTo(call.graph.nodes[a].id, call.graph.nodes[b].id) = {}

\* C14: a returned graph has no edge from a node to itself and no edge into
\* node 0; every edge out of node 0 has type hub_to_spoke and every edge
\* between two spokes has type sibling.
C14_EdgeShape ==
    GraphReturned =>
        \A e \in 1..Len(call.graph.edges) :
            LET edge == call.graph.edges[e]
            IN  /\ edge.source # edge.target
                /\ edge.target # 0
                /\ edge.source = 0 => edge.type = "hub_to_spoke"
                /\ (edge.source # 0 /\ edge.target # 0) => edge.type = "sibling"

\* C14 witness: a graph with hub edges and sibling edges.
C14_Witness ==
    /\ GraphReturned
    /\ \E e \in 1..Len(call.graph.edges) : call.graph.edges[e].type = "sibling"
    /\ \E e \in 1..Len(call.graph.edges) : call.graph.edges[e].source = 0

(***************************************************************************)
(* _cluster_keywords of the orchestrator: the two-level clustering of a    *)
(* list of keyword records.  A record is a dictionary with 'keyword' and,  *)
(* possibly, 'opportunity'; its field id stands for the identity of the    *)
(* Python object, which the code never reads.                              *)
(***************************************************************************)
\* settings.topic_cluster_threshold and settings.page_group_threshold
topic_cluster_threshold == (78 * Scale) \div 100
page_group_threshold == (88 * Scale) \div 100

\* [records[i] for i in cluster]
pick(records, cluster) ==
    [k \in 1..Len(cluster) |-> records[cluster[k] + 1]]

\* [kw['keyword'] for kw in records]
keyword_texts(records) == [k \in 1..Len(records) |-> records[k].keyword]

\* sum(kw.get('opportunity', 0) for kw in records)
RECURSIVE total_opportunity(_, _)
total_opportunity(records, k) ==
    IF k > Len(records) THEN 0
    ELSE dict_get(records[k], "opportunity", 0) + total_opportunity(records, k + 1)

\* a page group whose target is looked up in the topic's list
page_group_topic_target(topic_keywords, page_keywords, target_idx) ==
    [label |-> topic_keywords[target_idx + 1].keyword,
     target_keyword |-> topic_keywords[target_idx + 1],
     keywords |-> page_keywords,
     total_opportunity |-> total_opportunity(page_keywords, 1)]

\* the page_group dictionary of a page cluster
page_group(topic_keywords, page_keywords, target_idx) ==
    [label |-> page_keywords[target_idx + 1].keyword,
     target_keyword |-> page_keywords[target_idx + 1],
     keywords |-> page_keywords,
     total_opportunity |-> total_opportunity(page_keywords, 1)]

\* one pass of `for page_cluster in page_clusters`
page_group_of(topic_keywords, page_keywords) ==
    page_group(topic_keywords, page_keywords,
               select_pillar_keyword(keyword_texts(page_keywords), page_keywords))

\* the page groups of a topic, in the order of its page clusters
page_groups_of(topic_keywords, page_clusters) ==
    [g \in 1..Len(page_clusters) |->
        page_group_of(topic_keywords, pick(topic_keywords, page_clusters[g]))]

\* topic_data with its page groups filled in
topic_data(topic_keywords, pillar_idx, page_groups) ==
    [label |-> topic_keywords[pillar_idx + 1].keyword,
     pillar_keyword |-> topic_keywords[pillar_idx + 1],
     keywords |-> topic_keywords,
     total_opportunity |-> total_opportunity(topic_keywords, 1),
     page_groups |-> page_groups]

\* topics and all_page_groups after a topic and its page groups
topic_append(acc, cache, topic_keywords, page_groups) ==
    [status |-> "ok", cache |-> cache,
     topics |-> Append(acc.topics,
         topic_data(topic_keywords,
                    select_pillar_keyword(keyword_texts(topic_keywords),
                                          topic_keywords),
                    page_groups)),
     all_page_groups |-> acc.all_page_groups \o page_groups]

\* the loop state after the topic whose page clustering returned pages
topic_done(acc, topic_keywords, pages) ==
    IF pages.status = "error" THEN [status |-> "error", cache |-> pages.cache]
    ELSE topic_append(acc, pages.cache, topic_keywords,
                      page_groups_of(topic_keywords, pages.clusters))

\* one pass of `for topic_cluster in topic_clusters`
topic_step(acc, topic_keywords, encode_ok) ==
    topic_done(acc, topic_keywords,
               cluster_pages(acc.cache, keyword_texts(topic_keywords),
                             page_group_threshold, encode_ok))

\* for topic_cluster in topic_clusters, from the 1-based position t
RECURSIVE topics_loop(_, _, _, _, _)
topics_loop(acc, keywords, topic_clusters, t, encode_ok) ==
    IF acc.status = "error" \/ t > Len(topic_clusters) THEN acc
    ELSE topics_loop(topic_step(acc, pick(keywords, topic_clusters[t]), encode_ok),
                     keywords, topic_clusters, t + 1, encode_ok)

\* _cluster_keywords after the topic clustering returned
cluster_keywords_of(tc, keywords, encode_ok) ==
    IF tc.status = "error" THEN [status |-> "error", cache |-> tc.cache]
    ELSE topics_loop([status |-> "ok", cache |-> tc.cache, topics |-> <<>>,
                      all_page_groups |-> <<>>],
                     keywords, tc.clusters, 1, encode_ok)

cluster_keywords(cache, keywords, encode_ok) ==
    cluster_keywords_of(cluster_topics(cache, keyword_texts(keywords),
                                       topic_cluster_threshold, encode_ok),
                        keywords, encode_ok)

(***************************************************************************)
(* Specification of the two-level clustering: a list of keyword records    *)
(* and an encoder are drawn and _cluster_keywords runs once on a new       *)
(* clusterer.                                                              *)
(***************************************************************************)
MaxTwoLevel == 3        \* most keyword records handed to _cluster_keywords

\* the opportunity of a record: none, or a score
TwoLevelRecords == { EmptyDict } \cup { [opportunity |-> v] : v \in 0..1 }

\* the record at the 0-based input position i
input_record(texts, data, i) ==
    [id |-> i, keyword |-> texts[i + 1]] @@ data[i + 1]

InitTwoLevel ==
    /\ ServicesIdle
    /\ embeddings_cache = <<>>
    /\ threads = NoThreads
    /\ embed \in CacheEncoders
    /\ \E texts \in KeywordLists(MaxTwoLevel) :
          \E data \in [1..Len(texts) -> TwoLevelRecords] :
              call = [op |-> "cluster_keywords_input",
                      keywords |-> [k \in 1..Len(texts) |->
                                       input_record(texts, data, k - 1)]]

ClusterKeywords ==
    /\ call.op = "cluster_keywords_input"
    /\ \E encode_ok \in BOOLEAN :
          \E r \in { cluster_keywords(embeddings_cache, call.keywords, encode_ok) } :
              /\ embeddings_cache' = r.cache
              /\ call' = [op |-> "_cluster_keywords", keywords |-> call.keywords,
                          status |-> r.status,
                          topics |-> IF r.status = "ok" THEN r.topics ELSE None,
                          all_page_groups |->
                              IF r.status = "ok" THEN r.all_page_groups ELSE None]
              /\ UNCHANGED <<embed, threads, services>>

NextTwoLevel == ClusterKeywords

SpecTwoLevel == InitTwoLevel /\ [][NextTwoLevel]_vars

\* the number of positions of a list of records that hold the record id
Occurrences(records, id) ==
    Cardinality({ k \in 1..Len(records) : records[k].id = id })

\* the identities of the records of a list
Ids(records) == { records[k].id : k \in 1..Len(records) }

\* C20: after _cluster_keywords returned, every input record is in the list
\* of exactly one topic, once, and in the list of exactly one page group of
\* that topic, once, and in no page group of another topic; the records of
\* a page group are records of its topic; the pillar of a topic is one of
\* the topic's records and the target of a page group is one of the page
\* group's records.
C20_TwoLevelPartition ==
    (call.op = "_cluster_keywords" /\ call.status = "ok") =>
        LET topics == call.topics
            T == 1..Len(topics)
            G(t) == 1..Len(topics[t].page_groups)
        IN  /\ \A i \in 0..(Len(call.keywords) - 1) :
                  \E t \in T :
                      /\ Occurrences(topics[t].keywords, i) = 1
                      /\ \A u \in T \ {t} :
                            /\ Occurrences(topics[u].keywords, i) = 0
                            /\ \A g \in G(u) :
                                  Occurrences(topics[u].page_groups[g].keywords, i) = 0
                      /\ \E g \in G(t) :
                            /\ Occurrences(topics[t].page_groups[g].keywords, i) = 1
                            /\ \A h \in G(t) \ {g} :
                                  Occurrences(topics[t].page_groups[h].keywords, i) = 0
            /\ \A t \in T :
                  /\ Ids(topics[t].keywords) \subseteq 0..(Len(call.keywords) - 1)
                  /\ \A k \in 1..Len(topics[t].keywords) :
                        topics[t].keywords[k] = call.keywords[topics[t].keywords[k].id + 1]
                  /\ topics[t].pillar_keyword.id \in Ids(topics[t].keywords)
                  /\ \A g \in G(t) :
                        /\ Ids(topics[t].page_groups[g].keywords)
                              \subseteq Ids(topics[t].keywords)
                        /\ topics[t].page_groups[g].target_keyword.id
                              \in Ids(topics[t].page_groups[g].keywords)

\* C20 witness: three records in two topics, one topic with two page groups
\* and a pillar that is not its first record.
C20_Witness ==
    /\ call.op = "_cluster_keywords"
    /\ call.status = "ok"
    /\ Len(call.keywords) = 3
    /\ Len(call.topics) = 2
    /\ \E t \in 1..Len(call.topics) :
          /\ Len(call.topics[t].page_groups) = 2
          /\ call.topics[t].pillar_keyword.id # call.topics[t].keywords[1].id

(***************************************************************************)
(* QuotaTracker (src/stats_tracker.py).  limits and consumed are Python    *)
(* dictionaries: functions whose domain is the set of keys present.        *)
(***************************************************************************)
MaxLimit == 3           \* largest configured limit
MaxCost == 2            \* largest cost of one request
MaxConsumed == 4        \* cap on a counter, reached only without a limit

Providers == { "serpapi", "trends" }

\* the limits argument of the constructor: None or a dictionary
QuotaLimits ==
    { [none |-> TRUE, dict |-> EmptyDict] } \cup
    { [none |-> FALSE, dict |-> d] : d \in UNION { [D -> 0..MaxLimit] : D \in SUBSET Providers } }

\* __init__: limits or {} ; consumed = defaultdict(int)
QuotaTracker(limits) ==
    [ limits   |-> IF limits.none \/ DOMAIN limits.dict = {} THEN EmptyDict ELSE limits.dict,
      consumed |-> EmptyDict ]

\* consumed[provider] of a defaultdict(int): a missing key is inserted with 0
defaultdict_get(consumed, provider) ==
    IF provider \in DOMAIN consumed
    THEN [value |-> consumed[provider], consumed |-> consumed]
    ELSE [value |-> 0, consumed |-> (provider :> 0) @@ consumed]

\* can_make_request that forgets the cost of the request
can_make_request_ignore_cost(tracker, provider, cost) ==
    IF provider \notin DOMAIN tracker.limits
    THEN [result |-> TRUE, tracker |-> tracker]
    ELSE LET got == defaultdict_get(tracker.consumed, provider)
         IN  [ result  |-> got.value < tracker.limits[provider],
               tracker |-> [tracker EXCEPT !.consumed = got.consumed] ]

\* can_make_request: the outcome and the tracker after the call
can_make_request(tracker, provider, cost) ==
    IF provider \notin DOMAIN tracker.limits
    THEN [result |-> TRUE, tracker |-> tracker]
    ELSE LET got == defaultdict_get(tracker.consumed, provider)
         IN  [ result  |-> (got.value + cost) <= tracker.limits[provider],
               tracker |-> [tracker EXCEPT !.consumed = got.consumed] ]

\* consume: self.consumed[provider] += cost
consume(tracker, provider, cost) ==
    LET got == defaultdict_get(tracker.consumed, provider)
    IN  [tracker EXCEPT !.consumed = (provider :> (got.value + cost)) @@ got.consumed]

(***************************************************************************)
(* Specification SpecQuota: one QuotaTracker used as the test uses it: a   *)
(* request is consumed only right after can_make_request allowed it.       *)
(***************************************************************************)
InitQuota ==
    /\ ClustererIdle
    /\ StoreIdle
    /\ ProviderIdle
    /\ now = 0
    /\ call = NoCall
    /\ quota_tracker \in { QuotaTracker(limits) : limits \in QuotaLimits }

CanMakeRequest ==
    \E provider \in Providers, cost \in 0..MaxCost :
        \E r \in { can_make_request(quota_tracker, provider, cost) } :
            /\ quota_tracker' = r.tracker
            /\ call' = [ op |-> "can_make_request", provider |-> provider,
                         cost |-> cost, result |-> r.result ]
            /\ UNCHANGED <<clusterer, projects, checkpoint_manager, pipeline, now, rate_limiter, acquirers, retry>>

Consume ==
    /\ call.op = "can_make_request"
    /\ call.result
    /\ defaultdict_get(quota_tracker.consumed, call.provider).value + call.cost <= MaxConsumed
    /\ quota_tracker' = consume(quota_tracker, call.provider, call.cost)
    /\ call' = [ op |-> "consume", provider |-> call.provider, cost |-> call.cost ]
    /\ UNCHANGED <<clusterer, projects, checkpoint_manager, pipeline, now, rate_limiter, acquirers, retry>>

NextQuota == CanMakeRequest \/ Consume

SpecQuota == InitQuota /\ [][NextQuota]_vars

\* what the tracker has counted for a provider
Consumed(provider) ==
    IF provider \in DOMAIN quota_tracker.consumed THEN quota_tracker.consumed[provider] ELSE 0

Limited(provider) == provider \in DOMAIN quota_tracker.limits

\* C21: with a limit L, can_make_request(provider, cost) is true exactly when
\* consumed + cost <= L, and consumed never exceeds L when every consume
\* follows a can_make_request that allowed it (so at consumed = L every
\* request of cost >= 1 is refused); without a limit it is always true.
C21_QuotaEnforced ==
    /\ \A provider \in Providers :
           Limited(provider) => Consumed(provider) <= quota_tracker.limits[provider]
    /\ call.op = "can_make_request" =>
           IF Limited(call.provider)
           THEN call.result <=> (Consumed(call.provider) + call.cost <= quota_tracker.limits[call.provider])
           ELSE call.result

\* a limit of at least 2 was used up one request at a time and the next
\* request of cost 1 is refused, while the other provider has no limit and
\* has consumed
C21_Witness ==
    /\ call.op = "can_make_request"
    /\ Limited(call.provider)
    /\ call.cost = 1
    /\ ~call.result
    /\ quota_tracker.limits[call.provider] >= 2
    /\ Consumed(call.provider) = quota_tracker.limits[call.provider]
    /\ \E other \in Providers : ~Limited(other) /\ Consumed(other) > 0

(***************************************************************************)
(* CheckpointManager (src/checkpoint.py).  The Project table is the        *)
(* sequence projects, a row's id is its position.  A nullable DateTime     *)
(* column is a sequence of at most one time; the JSON column               *)
(* checkpoint_data holds the JSON text of a dictionary, or None.           *)
(***************************************************************************)
MaxClock == 2           \* the clock stops advancing here

ValueError == "ValueError"

STAGES == << "created", "expansion", "metrics", "processing", "scoring", "clustering", "briefs", "completed" >>

\* Project(name=...): the checkpoint columns have no default
Project(name) ==
    [ name |-> name, last_checkpoint |-> None, checkpoint_timestamp |-> <<>>, checkpoint_data |-> None ]

\* CheckpointManager(project_id)
CheckpointManager(project_id) == [project_id |-> project_id]

\* db.query(Project).filter(Project.id == project_id).first() finds a row
has_project(rows, project_id) == project_id \in 1..Len(rows)

\* list.index(x): the 0-based position of the first x; -1 stands for the
\* ValueError of a missing x
list_index(list, x) ==
    IF \E i \in 1..Len(list) : list[i] = x
    THEN (CHOOSE i \in 1..Len(list) : list[i] = x /\ \A j \in 1..(i - 1) : list[j] # x) - 1
    ELSE -1

\* data or {} on the JSON text of the argument
data_or_empty(data) == IF data = None \/ data = "{}" THEN "{}" ELSE data

\* the three assignments of save_checkpoint and the commit
write_checkpoint(rows, project_id, stage, data, time) ==
    IF has_project(rows, project_id)
    THEN [rows EXCEPT ![project_id] =
             [@ EXCEPT !.last_checkpoint = stage,
                       !.checkpoint_timestamp = <<time>>,
                       !.checkpoint_data = data_or_empty(data)]]
    ELSE rows

\* save_checkpoint without the test of the stage name
save_checkpoint_unvalidated(rows, project_id, stage, data, time) ==
    [status |-> "ok", projects |-> write_checkpoint(rows, project_id, stage, data, time)]

\* save_checkpoint: the outcome and the table after the call
save_checkpoint(rows, project_id, stage, data, time) ==
    IF stage \notin Range(STAGES)
    THEN [status |-> ValueError, projects |-> rows]
    ELSE [status |-> "ok", projects |-> write_checkpoint(rows, project_id, stage, data, time)]

\* get_checkpoint: None, or the dictionary of the stored checkpoint
get_checkpoint(rows, project_id) ==
    IF has_project(rows, project_id) /\ rows[project_id].last_checkpoint \notin { None, "" }
    THEN [ found |-> TRUE, stage |-> rows[project_id].last_checkpoint,
           timestamp |-> rows[project_id].checkpoint_timestamp,
           data |-> data_or_empty(rows[project_id].checkpoint_data) ]
    ELSE [ found |-> FALSE ]

\* get_next_stage that returns STAGES[current_index]
get_next_stage_repeat(rows, project_id) ==
    LET checkpoint == get_checkpoint(rows, project_id)
    IN  IF ~checkpoint.found THEN STAGES[1]
        ELSE IF checkpoint.stage = "completed" THEN None
        ELSE LET current_index == list_index(STAGES, checkpoint.stage)
             IN  IF current_index >= 0 /\ current_index < Len(STAGES) - 1
                 THEN py_index(STAGES, current_index)
                 ELSE None

\* get_next_stage
get_next_stage(rows, project_id) ==
    LET checkpoint == get_checkpoint(rows, project_id)
    IN  IF ~checkpoint.found THEN STAGES[1]
        ELSE IF checkpoint.stage = "completed" THEN None
        ELSE LET current_index == list_index(STAGES, checkpoint.stage)
             IN  IF current_index >= 0 /\ current_index < Len(STAGES) - 1
                 THEN py_index(STAGES, current_index + 1)
                 ELSE None

\* is_completed: checkpoint and checkpoint['stage'] == 'completed', as a truth value
is_completed(rows, project_id) ==
    LET checkpoint == get_checkpoint(rows, project_id)
    IN  checkpoint.found /\ checkpoint.stage = "completed"

\* can_resume
can_resume(rows, project_id) ==
    get_checkpoint(rows, project_id).found /\ ~is_completed(rows, project_id)

\* clear_checkpoint
clear_checkpoint(rows, project_id) ==
    IF has_project(rows, project_id)
    THEN [rows EXCEPT ![project_id] =
             [@ EXCEPT !.last_checkpoint = None,
                       !.checkpoint_timestamp = <<>>,
                       !.checkpoint_data = None]]
    ELSE rows

(***************************************************************************)
(* Specification SpecCheckpoint: one CheckpointManager on a table of one   *)
(* project, whose row it addresses (project_id 1) or misses (project_id 2).*)
(***************************************************************************)
StageNames == Range(STAGES) \cup { "invalid_stage", "" }

CheckpointData == { None, "{}", "{\"keywords_count\": 1}" }

InitCheckpoint ==
    /\ ClustererIdle
    /\ QuotaIdle
    /\ ProviderIdle
    /\ pipeline = None
    /\ now = 0
    /\ call = NoCall
    /\ projects = << Project("p") >>
    /\ checkpoint_manager \in { CheckpointManager(project_id) : project_id \in 1..2 }

\* time passes
ClockTick ==
    /\ now < MaxClock
    /\ now' = now + 1
    /\ UNCHANGED <<clusterer, call, quota_tracker, projects, checkpoint_manager, pipeline, rate_limiter, acquirers, retry>>

SaveCheckpoint ==
    \E stage \in StageNames, data \in CheckpointData :
        \E r \in { save_checkpoint(projects, checkpoint_manager.project_id, stage, data, now) } :
            /\ projects' = r.projects
            /\ call' = [ op |-> "save_checkpoint", stage |-> stage, data |-> data,
                         status |-> r.status, before |-> projects ]
            /\ UNCHANGED <<clusterer, quota_tracker, checkpoint_manager, pipeline, now, rate_limiter, acquirers, retry>>

\* the wrapper of with_checkpoint(stage_name): func, then save_checkpoint
WithCheckpoint ==
    \E stage_name \in StageNames, func_ok \in BOOLEAN :
        \E r \in { IF func_ok
                   THEN save_checkpoint(projects, checkpoint_manager.project_id, stage_name, None, now)
                   ELSE [status |-> "Exception", projects |-> projects] } :
            /\ projects' = r.projects
            /\ call' = [ op |-> "with_checkpoint", stage |-> stage_name, func_ok |-> func_ok,
                         status |-> r.status, before |-> projects ]
            /\ UNCHANGED <<clusterer, quota_tracker, checkpoint_manager, pipeline, now, rate_limiter, acquirers, retry>>

ClearCheckpoint ==
    /\ projects' = clear_checkpoint(projects, checkpoint_manager.project_id)
    /\ call' = [ op |-> "clear_checkpoint" ]
    /\ UNCHANGED <<clusterer, quota_tracker, checkpoint_manager, pipeline, now, rate_limiter, acquirers, retry>>

GetNextStage ==
    /\ call' = [ op |-> "get_next_stage",
                 result |-> get_next_stage(projects, checkpoint_manager.project_id) ]
    /\ UNCHANGED <<clusterer, quota_tracker, projects, checkpoint_manager, pipeline, now, rate_limiter, acquirers, retry>>

CanResume ==
    /\ call' = [ op |-> "can_resume",
                 result |-> can_resume(projects, checkpoint_manager.project_id) ]
    /\ UNCHANGED <<clusterer, quota_tracker, projects, checkpoint_manager, pipeline, now, rate_limiter, acquirers, retry>>

NextCheckpoint ==
    \/ ClockTick
    \/ SaveCheckpoint
    \/ WithCheckpoint
    \/ ClearCheckpoint
    \/ GetNextStage
    \/ CanResume

SpecCheckpoint == InitCheckpoint /\ [][NextCheckpoint]_vars

\* the manager's project has a stored checkpoint
Stored ==
    /\ checkpoint_manager.project_id \in 1..Len(projects)
    /\ projects[checkpoint_manager.project_id].last_checkpoint # None

StoredStage == projects[checkpoint_manager.project_id].last_checkpoint

\* C22: save_checkpoint with a stage outside STAGES raises ValueError and
\* leaves last_checkpoint, timestamp and data as they were; the stored
\* last_checkpoint is always empty or a member of STAGES.
C22_InvalidStageRejected ==
    /\ \A id \in 1..Len(projects) :
           projects[id].last_checkpoint \in { None } \cup Range(STAGES)
    /\ call.op = "save_checkpoint" /\ call.stage \notin Range(STAGES) =>
           /\ call.status = ValueError
           /\ projects = call.before

\* a checkpoint is stored, and a save with an invalid name has just failed
C22_Witness ==
    /\ call.op = "save_checkpoint"
    /\ call.stage = "invalid_stage"
    /\ call.status = ValueError
    /\ Stored
    /\ StoredStage = "metrics"
    /\ projects[1].checkpoint_timestamp = <<1>>

\* the stage that follows a stage in the documented order
StageAfter(stage) ==
    CASE stage = "created" -> "expansion"
      [] stage = "expansion" -> "metrics"
      [] stage = "metrics" -> "processing"
      [] stage = "processing" -> "scoring"
      [] stage = "scoring" -> "clustering"
      [] stage = "clustering" -> "briefs"
      [] stage = "briefs" -> "completed"
      [] OTHER -> None

\* C23: get_next_stage is 'created' without a stored checkpoint, the
\* successor of the stored stage otherwise, and None exactly for
\* 'completed'; can_resume holds exactly when a checkpoint is stored and
\* its stage is not 'completed'.
C23_NextStage ==
    /\ call.op = "get_next_stage" =>
           /\ ~Stored => call.result = "created"
           /\ Stored => call.result = StageAfter(StoredStage)
           /\ call.result = None <=> (Stored /\ StoredStage = "completed")
    /\ call.op = "can_resume" =>
           (call.result <=> (Stored /\ StoredStage # "completed"))

\* the next stage after a stored 'processing' was asked for
C23_Witness ==
    /\ call.op = "get_next_stage"
    /\ Stored
    /\ StoredStage = "processing"
    /\ call.result = "scoring"

(***************************************************************************)
(* run_full_pipeline (src/orchestrator.py).  A run creates its project     *)
(* row and then alternates a stage's work with the save of its checkpoint. *)
(* The work of a stage is named after the checkpoint saved behind it; any  *)
(* work may raise, and nothing in run_full_pipeline catches it.            *)
(***************************************************************************)
MaxRuns == 2            \* runs of the pipeline, one project row each

ProjectNames == { "p", "q" }

\* the checkpoints of run_full_pipeline in the order of its statements
PipelineStages == << "created", "expansion", "metrics", "scoring", "clustering", "briefs", "completed" >>

\* the data argument of the save_checkpoint call of a stage
pipeline_data(stage) == IF stage = "expansion" THEN "{\"keywords_count\": 1}" ELSE None

NoPipeline == [ phase |-> "idle", step |-> 0, resume |-> FALSE, executed |-> <<>>, saved |-> <<>> ]

\* lines 60-89: the project row is added and the manager is constructed
start_run(resume) ==
    [ phase |-> "save", step |-> 1, resume |-> resume, executed |-> << "created" >>, saved |-> <<>> ]

\* a stage's work in which an exception is lost instead of propagating
work_step_swallow(pl, ok) ==
    IF ok
    THEN [pl EXCEPT !.executed = Append(@, PipelineStages[pl.step]), !.phase = "save"]
    ELSE [pl EXCEPT !.phase = "save"]

\* a stage's work returns, or raises out of run_full_pipeline
work_step(pl, ok) ==
    IF ok
    THEN [pl EXCEPT !.executed = Append(@, PipelineStages[pl.step]), !.phase = "save"]
    ELSE [pl EXCEPT !.phase = "raised"]

\* the position after self.checkpoint_manager.save_checkpoint(stage) returned
save_step(pl) ==
    IF pl.step = Len(PipelineStages)
    THEN [pl EXCEPT !.saved = Append(@, PipelineStages[pl.step]), !.phase = "returned"]
    ELSE [pl EXCEPT !.saved = Append(@, PipelineStages[pl.step]), !.phase = "work", !.step = @ + 1]

(***************************************************************************)
(* Specification SpecPipeline: up to MaxRuns runs, one after the other.    *)
(***************************************************************************)
InitPipeline ==
    /\ ClustererIdle
    /\ QuotaIdle
    /\ ProviderIdle
    /\ now = 0
    /\ call = NoCall
    /\ projects = <<>>
    /\ checkpoint_manager = CheckpointManager(0)
    /\ pipeline = NoPipeline

RunFullPipeline ==
    \E project_name \in ProjectNames, resume \in BOOLEAN :
        /\ pipeline.phase \in { "idle", "returned", "raised" }
        /\ Len(projects) < MaxRuns
        /\ projects' = Append(projects, Project(project_name))
        /\ checkpoint_manager' = CheckpointManager(Len(projects) + 1)
        /\ pipeline' = start_run(resume)
        /\ call' = [ op |-> "run_full_pipeline", project_name |-> project_name, resume |-> resume ]
        /\ UNCHANGED <<clusterer, quota_tracker, now, rate_limiter, acquirers, retry>>

StageWork ==
    \E ok \in BOOLEAN :
        /\ pipeline.phase = "work"
        /\ pipeline' = work_step(pipeline, ok)
        /\ UNCHANGED <<clusterer, call, quota_tracker, projects, checkpoint_manager, now, rate_limiter, acquirers, retry>>

StageSave ==
    /\ pipeline.phase = "save"
    /\ \E r \in { save_checkpoint(projects, checkpoint_manager.project_id, PipelineStages[pipeline.step],
                                  pipeline_data(PipelineStages[pipeline.step]), now) } :
           /\ projects' = r.projects
           /\ pipeline' = IF r.status = "ok" THEN save_step(pipeline) ELSE [pipeline EXCEPT !.phase = "raised"]
    /\ UNCHANGED <<clusterer, call, quota_tracker, checkpoint_manager, now, rate_limiter, acquirers, retry>>

NextPipeline ==
    \/ RunFullPipeline
    \/ StageWork
    \/ StageSave
    \/ ClockTick

SpecPipeline == InitPipeline /\ [][NextPipeline]_vars

\* the position of a stage in STAGES
StageNo(stage) == CHOOSE i \in 1..Len(STAGES) : STAGES[i] = stage

\* the checkpoint of the running project
RunCheckpoint == projects[checkpoint_manager.project_id].last_checkpoint

\* the earlier projects of the same name that have a stored checkpoint
EarlierStored ==
    { id \in 1..(checkpoint_manager.project_id - 1) :
        /\ projects[id].name = projects[checkpoint_manager.project_id].name
        /\ projects[id].last_checkpoint # None }

\* C24: a run with resume=True for a project that has a stored checkpoint
\* does not execute the stages at or before that checkpoint again, and
\* starts with the stage that get_next_stage returns for it.
C24_ResumeSkipsFinishedStages ==
    pipeline.phase # "idle" /\ pipeline.resume =>
        \A id \in EarlierStored :
            /\ \A k \in 1..Len(pipeline.executed) :
                   StageNo(pipeline.executed[k]) > StageNo(projects[id].last_checkpoint)
            /\ pipeline.executed[1] = get_next_stage(projects, id)

\* C29: the checkpoints saved by one run are strictly increasing in STAGES
\* order, each is saved only after its stage's work returned, 'completed'
\* only after every work and the database save returned; when a stage
\* raises the stored checkpoint is the last stage that finished, and is
\* not 'completed'.
C29_CheckpointsInOrder ==
    pipeline.phase # "idle" =>
        /\ \A i, j \in 1..Len(pipeline.saved) :
               i < j => StageNo(pipeline.saved[i]) < StageNo(pipeline.saved[j])
        /\ \A i \in 1..Len(pipeline.saved) :
               \E k \in 1..Len(pipeline.executed) : pipeline.executed[k] = pipeline.saved[i]
        /\ (\E i \in 1..Len(pipeline.saved) : pipeline.saved[i] = "completed") =>
               pipeline.executed = PipelineStages
        /\ RunCheckpoint = IF pipeline.saved = <<>> THEN None ELSE pipeline.saved[Len(pipeline.saved)]
        /\ pipeline.phase = "raised" =>
               /\ RunCheckpoint = pipeline.executed[Len(pipeline.executed)]
               /\ RunCheckpoint # "completed"

\* the work behind 'metrics' raised: three checkpoints were saved and the
\* stored one is 'metrics'
C29_Witness ==
    /\ pipeline.phase = "raised"
    /\ pipeline.saved = << "created", "expansion", "metrics" >>
    /\ RunCheckpoint = "metrics"
    /\ projects[checkpoint_manager.project_id].checkpoint_data = "{}"

(***************************************************************************)
(* RateLimiter (src/providers/base.py).  Time is counted in ticks and      *)
(* tokens in units of 1/TicksPerToken of a token; a tick is the time in    *)
(* which the bucket refills by one unit, 60/(rpm * TicksPerToken) seconds, *)
(* so that elapsed * (rpm / 60.0) is elapsed units and                     *)
(* (1 - tokens) * (60.0 / rpm) is TicksPerToken - tokens ticks.  The clock *)
(* never goes backwards.  A thread inside acquire() is a record of its     *)
(* position, its local variables, and what it saw at the first test of     *)
(* the call.                                                               *)
(***************************************************************************)
MaxRpm == 2             \* largest requests-per-minute of a limiter
MaxTime == 3            \* no acquire() call starts at or after this time
TicksPerToken == 2      \* resolution of time and of the token count
MaxAcquires == 3        \* acquire() calls of the thread that runs alone
MaxRaceAcquires == 1    \* acquire() calls of each of two concurrent threads
MaxWaits == 1           \* sleeps inside one acquire() call (one thread needs one)

\* __init__: self.tokens = requests_per_minute, self.last_update = time.time()
RateLimiter(requests_per_minute, time) ==
    [ rpm |-> requests_per_minute, tokens |-> requests_per_minute * TicksPerToken, last_update |-> time ]

NoAcquirer ==
    [ pc |-> "idle", now |-> 0, elapsed |-> 0, tokens |-> 0, wake |-> 0,
      entry_time |-> 0, entry_tokens |-> 0, checked |-> 0, waits |-> 0, granted |-> 0,
      calls_left |-> 0 ]

\* a thread that is going to call acquire() so many times
Acquirer(calls) == [NoAcquirer EXCEPT !.calls_left = calls]

Min(a, b) == IF a <= b THEN a ELSE b

\* line 26 without the cap at the bucket size
refill_uncapped(rpm, tokens, elapsed) == tokens + elapsed

\* line 26: min(self.rpm, self.tokens + elapsed * (self.rpm / 60.0))
refill(rpm, tokens, elapsed) == Min(rpm * TicksPerToken, tokens + elapsed)

\* line 29 taking any positive part of a token for a token
has_token_partial(tokens) == tokens > 0

\* line 29: self.tokens >= 1
has_token(tokens) == tokens >= TicksPerToken

\* line 33: (1 - self.tokens) * (60.0 / self.rpm), in ticks
wait_time(tokens) == TicksPerToken - tokens

\* the steps of acquire() by thread t, one per read or write of the limiter
AcquireCall(t) ==
    /\ acquirers[t].pc = "idle"
    /\ now < MaxTime
    /\ acquirers[t].calls_left > 0
    /\ acquirers' = [acquirers EXCEPT ![t] =
           [NoAcquirer EXCEPT !.pc = "time", !.granted = acquirers[t].granted,
                              !.calls_left = acquirers[t].calls_left - 1]]
    /\ UNCHANGED <<clusterer, call, quota_tracker, projects, checkpoint_manager, pipeline, now, rate_limiter, retry>>

\* line 24: now = time.time()
ReadTime(t) ==
    /\ acquirers[t].pc = "time"
    /\ acquirers' = [acquirers EXCEPT ![t].now = now, ![t].pc = "elapsed"]
    /\ UNCHANGED <<clusterer, call, quota_tracker, projects, checkpoint_manager, pipeline, now, rate_limiter, retry>>

\* line 25: elapsed = now - self.last_update
ReadLastUpdate(t) ==
    /\ acquirers[t].pc = "elapsed"
    /\ acquirers' = [acquirers EXCEPT ![t].elapsed = acquirers[t].now - rate_limiter.last_update,
                                      ![t].pc = "refill_load"]
    /\ UNCHANGED <<clusterer, call, quota_tracker, projects, checkpoint_manager, pipeline, now, rate_limiter, retry>>

\* line 26, the read of self.tokens
RefillLoad(t) ==
    /\ acquirers[t].pc = "refill_load"
    /\ acquirers' = [acquirers EXCEPT ![t].tokens = rate_limiter.tokens, ![t].pc = "refill_store"]
    /\ UNCHANGED <<clusterer, call, quota_tracker, projects, checkpoint_manager, pipeline, now, rate_limiter, retry>>

\* line 26, the write of self.tokens
RefillStore(t) ==
    /\ acquirers[t].pc = "refill_store"
    /\ rate_limiter' = [rate_limiter EXCEPT
           !.tokens = refill(rate_limiter.rpm, acquirers[t].tokens, acquirers[t].elapsed)]
    /\ acquirers' = [acquirers EXCEPT ![t].pc = "update"]
    /\ UNCHANGED <<clusterer, call, quota_tracker, projects, checkpoint_manager, pipeline, now, retry>>

\* line 27: self.last_update = now
StoreLastUpdate(t) ==
    /\ acquirers[t].pc = "update"
    /\ rate_limiter' = [rate_limiter EXCEPT !.last_update = acquirers[t].now]
    /\ acquirers' = [acquirers EXCEPT ![t].pc = "check"]
    /\ UNCHANGED <<clusterer, call, quota_tracker, projects, checkpoint_manager, pipeline, now, retry>>

\* line 29: if self.tokens >= 1
CheckTokens(t) ==
    LET th == acquirers[t]
        first == th.waits = 0
    IN  /\ th.pc = "check"
        /\ acquirers' = [acquirers EXCEPT
               ![t].checked = rate_limiter.tokens,
               ![t].entry_time = IF first THEN th.now ELSE th.entry_time,
               ![t].entry_tokens = IF first THEN rate_limiter.tokens ELSE th.entry_tokens,
               ![t].pc = IF has_token(rate_limiter.tokens) THEN "take_load" ELSE "wait"]
        /\ UNCHANGED <<clusterer, call, quota_tracker, projects, checkpoint_manager, pipeline, now, rate_limiter, retry>>

\* line 30, the read of self.tokens
TakeLoad(t) ==
    /\ acquirers[t].pc = "take_load"
    /\ acquirers' = [acquirers EXCEPT ![t].tokens = rate_limiter.tokens, ![t].pc = "take_store"]
    /\ UNCHANGED <<clusterer, call, quota_tracker, projects, checkpoint_manager, pipeline, now, rate_limiter, retry>>

\* line 30, the write of self.tokens
TakeStore(t) ==
    /\ acquirers[t].pc = "take_store"
    /\ rate_limiter' = [rate_limiter EXCEPT !.tokens = acquirers[t].tokens - TicksPerToken]
    /\ acquirers' = [acquirers EXCEPT ![t].pc = "return"]
    /\ UNCHANGED <<clusterer, call, quota_tracker, projects, checkpoint_manager, pipeline, now, retry>>

\* line 31: return
Return(t) ==
    /\ acquirers[t].pc = "return"
    /\ acquirers' = [acquirers EXCEPT ![t].pc = "idle", ![t].granted = @ + 1,
                                      ![t].now = 0, ![t].elapsed = 0, ![t].tokens = 0, ![t].wake = 0]
    /\ UNCHANGED <<clusterer, call, quota_tracker, projects, checkpoint_manager, pipeline, now, rate_limiter, retry>>

\* lines 33-34: wait_time is computed and time.sleep(wait_time) is entered
Sleep(t) ==
    /\ acquirers[t].pc = "wait"
    /\ acquirers[t].waits < MaxWaits
    /\ acquirers' = [acquirers EXCEPT ![t].wake = now + wait_time(rate_limiter.tokens),
                                      ![t].waits = @ + 1,
                                      ![t].pc = "sleeping"]
    /\ UNCHANGED <<clusterer, call, quota_tracker, projects, checkpoint_manager, pipeline, now, rate_limiter, retry>>

\* time.sleep returns once wait_time has passed
Wake(t) ==
    /\ acquirers[t].pc = "sleeping"
    /\ now >= acquirers[t].wake
    /\ acquirers' = [acquirers EXCEPT ![t].pc = "time"]
    /\ UNCHANGED <<clusterer, call, quota_tracker, projects, checkpoint_manager, pipeline, now, rate_limiter, retry>>

AcquireStep(t) ==
    \/ ReadTime(t)
    \/ ReadLastUpdate(t)
    \/ RefillLoad(t)
    \/ RefillStore(t)
    \/ StoreLastUpdate(t)
    \/ CheckTokens(t)
    \/ TakeLoad(t)
    \/ TakeStore(t)
    \/ Return(t)
    \/ Sleep(t)
    \/ Wake(t)

\* time passes; past MaxTime only while a sleeper waits for it
Tick ==
    /\ \/ now < MaxTime
       \/ \E t \in DOMAIN acquirers : acquirers[t].pc = "sleeping" /\ acquirers[t].wake > now
    /\ now' = now + 1
    /\ UNCHANGED <<clusterer, call, quota_tracker, projects, checkpoint_manager, pipeline, rate_limiter, acquirers, retry>>

(***************************************************************************)
(* Specification SpecLimiter: one thread calls acquire() again and again   *)
(* on a fresh limiter.  SpecLimiterFair adds that time advances and that   *)
(* the thread inside acquire() keeps running.                              *)
(***************************************************************************)
InitLimiter ==
    /\ ClustererIdle
    /\ QuotaIdle
    /\ StoreIdle
    /\ call = NoCall
    /\ retry = None
    /\ now = 0
    /\ rate_limiter \in { RateLimiter(rpm, 0) : rpm \in 1..MaxRpm }
    /\ acquirers = << Acquirer(MaxAcquires) >>

NextLimiter ==
    \/ Tick
    \/ \E t \in DOMAIN acquirers : AcquireCall(t)
    \/ \E t \in DOMAIN acquirers : AcquireStep(t)

SpecLimiter == InitLimiter /\ [][NextLimiter]_vars

SpecLimiterFair ==
    /\ SpecLimiter
    /\ WF_vars(Tick)
    /\ WF_vars(AcquireStep(1))

\* C25: a fresh RateLimiter(rpm) grants its first rpm acquire() calls
\* without sleeping, and with one thread 0 <= tokens <= rpm always.
C25_BurstAndBounds ==
    /\ 0 <= rate_limiter.tokens
    /\ rate_limiter.tokens <= rate_limiter.rpm * TicksPerToken
    /\ \A t \in DOMAIN acquirers :
           acquirers[t].granted < rate_limiter.rpm => acquirers[t].pc \notin { "wait", "sleeping" }

\* the burst of rpm = 2 calls was granted without a wait and emptied the
\* bucket, and the third call sleeps
C25_Witness ==
    /\ rate_limiter.rpm = 2
    /\ acquirers[1].granted = 2
    /\ acquirers[1].pc = "sleeping"
    /\ rate_limiter.tokens < TicksPerToken

\* what C26 says of a call that has passed line 30
ReturnsAfterRefill(t) ==
    LET th == acquirers[t]
    IN  th.pc = "return" =>
            /\ th.checked >= TicksPerToken
            /\ rate_limiter.tokens = th.checked - TicksPerToken
            /\ th.entry_tokens < TicksPerToken =>
                   now - th.entry_time >= TicksPerToken - th.entry_tokens

\* C26: with fewer than one token acquire() returns only after the time
\* the refill needs to reach one token, it takes exactly one token, and
\* every call returns as time advances.
C26_WaitsThenReturns ==
    /\ [](\A t \in DOMAIN acquirers : ReturnsAfterRefill(t))
    /\ (acquirers[1].pc # "idle") ~> (acquirers[1].pc = "idle")

\* a call that found half a token slept for the missing half and returned
C26_Witness ==
    /\ acquirers[1].pc = "idle"
    /\ acquirers[1].granted >= 2
    /\ acquirers[1].waits = 1
    /\ acquirers[1].entry_tokens = 1
    /\ acquirers[1].checked >= TicksPerToken

(***************************************************************************)
(* Specification SpecLimiterRace: two threads share one RateLimiter, as    *)
(* the jobs of the background scheduler share one provider.  self.lock is  *)
(* set in __init__ and never used, so the steps of acquire() interleave    *)
(* freely.                                                                 *)
(***************************************************************************)
InitLimiterRace ==
    /\ ClustererIdle
    /\ QuotaIdle
    /\ StoreIdle
    /\ call = NoCall
    /\ retry = None
    /\ now = 0
    /\ rate_limiter \in { RateLimiter(rpm, 0) : rpm \in 1..MaxRpm }
    /\ acquirers = << Acquirer(MaxRaceAcquires), Acquirer(MaxRaceAcquires) >>

SpecLimiterRace == InitLimiterRace /\ [][NextLimiter]_vars

\* the acquire() calls that returned
Granted == acquirers[1].granted + acquirers[2].granted

\* C30: under every interleaving of two threads in acquire() the token
\* count is never negative and no more calls are granted than whole tokens
\* were available (the rpm of the start and one per TicksPerToken ticks).
C30_NoDoubleGrant ==
    /\ rate_limiter.tokens >= 0
    /\ Granted * TicksPerToken <= rate_limiter.rpm * TicksPerToken + now

(***************************************************************************)
(* BaseProvider.with_retry (src/providers/base.py).  An attempt of the     *)
(* wrapped function returns, raises an Exception, or raises something      *)
(* that `except Exception` does not catch; the value or exception of an    *)
(* attempt is told apart by the number of the attempt.  The sleep is       *)
(* counted in ticks of half a second.                                      *)
(***************************************************************************)
MaxRetries == 3         \* largest max_retries

BackoffFactors == { 1, 2, 3 }

AttemptOutcomes == { "return", "Exception", "KeyboardInterrupt" }

RECURSIVE Power(_, _)
Power(base, exponent) == IF exponent = 0 THEN 1 ELSE base * Power(base, exponent - 1)

\* backoff_factor ** attempt * (0.5 + random.random()), in half seconds
wait_times(backoff_factor, attempt) ==
    Power(backoff_factor, attempt)..(3 * Power(backoff_factor, attempt) - 1)

\* the wrapper before it is called
WithRetry(max_retries, backoff_factor) ==
    [ pc |-> "idle", max_retries |-> max_retries, backoff_factor |-> backoff_factor,
      attempt |-> 0, outcomes |-> <<>>, events |-> <<>>, result |-> <<>> ]

\* the test of the except clause that lets the last exception pass
is_last_attempt_late(attempt, max_retries) == attempt = max_retries

\* the test of the except clause: attempt == max_retries - 1
is_last_attempt(attempt, max_retries) == attempt = max_retries - 1

\* for attempt in range(max_retries): the loop goes on or is exhausted
loop_head(r) ==
    IF r.attempt < r.max_retries
    THEN [r EXCEPT !.pc = "attempt"]
    ELSE [r EXCEPT !.pc = "returned", !.result = <<None, r.attempt>>]

\* one attempt of func and the except clause
attempt_step(r, outcome) ==
    LET tried == [r EXCEPT !.outcomes = Append(@, outcome), !.events = Append(@, "attempt")]
    IN  IF outcome = "return"
        THEN [tried EXCEPT !.pc = "returned", !.result = <<"value", r.attempt + 1>>]
        ELSE IF outcome = "KeyboardInterrupt" \/ is_last_attempt(r.attempt, r.max_retries)
        THEN [tried EXCEPT !.pc = "raised", !.result = <<outcome, r.attempt + 1>>]
        ELSE [tried EXCEPT !.pc = "sleep"]

(***************************************************************************)
(* Specification SpecRetry: one call of a wrapped function.                *)
(***************************************************************************)
InitRetry ==
    /\ ClustererIdle
    /\ QuotaIdle
    /\ StoreIdle
    /\ call = NoCall
    /\ rate_limiter = None
    /\ acquirers = <<>>
    /\ now = 0
    /\ retry \in { WithRetry(max_retries, backoff_factor) :
                     max_retries \in 0..MaxRetries, backoff_factor \in BackoffFactors }

RetryCall ==
    /\ retry.pc = "idle"
    /\ retry' = loop_head(retry)
    /\ UNCHANGED <<clusterer, call, quota_tracker, projects, checkpoint_manager, pipeline, now, rate_limiter, acquirers>>

RetryAttempt ==
    \E outcome \in AttemptOutcomes :
        /\ retry.pc = "attempt"
        /\ retry' = attempt_step(retry, outcome)
        /\ UNCHANGED <<clusterer, call, quota_tracker, projects, checkpoint_manager, pipeline, now, rate_limiter, acquirers>>

\* time.sleep(wait_time) and the next turn of the loop
RetrySleep ==
    \E duration \in wait_times(retry.backoff_factor, retry.attempt) :
        /\ retry.pc = "sleep"
        /\ now' = now + duration
        /\ retry' = loop_head([retry EXCEPT !.attempt = @ + 1, !.events = Append(@, "sleep")])
        /\ UNCHANGED <<clusterer, call, quota_tracker, projects, checkpoint_manager, pipeline, rate_limiter, acquirers>>

NextRetry == RetryCall \/ RetryAttempt \/ RetrySleep

SpecRetry == InitRetry /\ [][NextRetry]_vars

\* C28: with max_retries = n >= 1 the function is attempted at most n
\* times; the wrapper returns the value of the first attempt that does not
\* raise and attempts nothing after it, sleeps before every re-attempt,
\* re-raises the exception of the n-th attempt when all n raise, and never
\* returns without a successful attempt.
C28_RetryAtMostN ==
    retry.max_retries >= 1 =>
        LET n == retry.max_retries
            made == Len(retry.outcomes)
        IN  /\ made <= n
            /\ \A k \in 1..(made - 1) : retry.outcomes[k] = "Exception"
            /\ \A i \in 2..Len(retry.events) :
                   retry.events[i] = "attempt" => retry.events[i - 1] = "sleep"
            /\ Len(retry.events) > 1 => now > 0
            /\ retry.pc = "returned" =>
                   /\ made >= 1
                   /\ retry.outcomes[made] = "return"
                   /\ retry.result = <<"value", made>>
            /\ retry.pc = "raised" =>
                   /\ retry.outcomes[made] # "return"
                   /\ retry.result = <<retry.outcomes[made], made>>
            /\ (made = n /\ retry.outcomes[n] # "return") => retry.pc = "raised"
            /\ (retry.pc = "raised" /\ retry.outcomes[made] = "Exception") => made = n

\* three attempts raised: the wrapper slept twice and re-raised the third
\* exception
C28_Witness ==
    /\ retry.max_retries = 3
    /\ retry.pc = "raised"
    /\ retry.outcomes = << "Exception", "Exception", "Exception" >>
    /\ retry.events = << "attempt", "sleep", "attempt", "sleep", "attempt" >>
    /\ retry.result = << "Exception", 3 >>

====
